---------------------------- MODULE Spec2Model ----------------------------
(***************************************************************************)
(* State-machine model of the api-manager gateway: the provider pool       *)
(* (services/provider_pool.rs), the chat dispatcher                        *)
(* (handlers/api/chat_completion.rs) and the admission path that rebuilds  *)
(* the pool (handlers/api/provider.rs).                                    *)
(*                                                                         *)
(* Floating-point balances are modelled by small naturals, strings by      *)
(* tags.  An Option is modelled by an index 0 (None) or by a record with   *)
(* a `some` flag.  Every step between two points where another task can    *)
(* run (an .await, or the release of the pool mutex) is one action.        *)
(***************************************************************************)
EXTENDS Naturals, Integers, Sequences, FiniteSets, TLC

(***************************************************************************)
(* Bounds of the model.                                                    *)
(***************************************************************************)
\* admissions that may run in one behaviour (each rebuilds the pool once)
MaxAdmits == 1
\* cap on a key's total_tokens tally in the pool-level specification
MaxTally == 3
\* cap on a key's total_tokens tally in the least-tokens specification
MaxScenarioTally == 200
\* cap on the chunks one upstream stream delivers
MaxChunks == 2
\* cap on the chunks of one upstream stream in the streaming specification
MaxStreamChunks == 3
\* sequential requests of the round-robin scenario
NumSeqReqs == 5
\* the largest value of a u32 tally in the model (u32::MAX in the program)
MaxU32 == 255
\* calls of update_usage for one key in the usage specification
MaxUpdates == 3

(***************************************************************************)
(* Program constants.                                                      *)
(***************************************************************************)
\* `3 as retry_attempts` in the pool's SELECT
RetryAttempts == 3

Keys == {"A", "B", "C"}
Models == {"M", "N"}
\* strategies = ["RoundRobin", "LeastConnections", "LeastTokens"]
strategies == <<"RoundRobin", "LeastConnections", "LeastTokens">>
\* every tag select_provider can be called with: the three above and any other
StrategyTags == {"RoundRobin", "LeastConnections", "LeastTokens", "Other"}
Reqs == {"r1", "r2"}

VARIABLES
    db,             \* table api_providers: sequence of rows in rowid order
    providers,      \* ProviderPoolState.providers
    current_index,  \* ProviderPoolState.current_index
    token_usage,    \* ProviderPoolState.token_usage: key -> TokenUsage
    pool_sems,      \* ProviderPoolState.connection_semaphores: key -> semaphore id
    sems,           \* heap of Semaphore objects: id -> free permits
    req,            \* the chat dispatches in progress
    usage_rows,     \* table api_usage (append-only)
    adm,            \* the admission handler in progress
    admits,         \* number of admissions started
    last_op,        \* observation of the last pool-level call (SpecPool)
    rec,            \* the balance reconciler: its cycle in progress
    adms,           \* admission handlers running concurrently (SpecAdmit)
    upstream,       \* the user-info endpoint: what it answers for each key
    built,          \* what the pool in use was loaded from (for the properties)
    mutex           \* the Mutex around ProviderPoolState: the task that holds it

vars == <<db, providers, current_index, token_usage, pool_sems, sems, req,
          usage_rows, adm, admits, last_op, rec, adms, upstream, built,
          mutex>>

(***************************************************************************)
(* ProviderPoolState                                                       *)
(***************************************************************************)
Range(s) == {s[i] : i \in 1..Len(s)}

\* variant: availability that forgets the balance threshold
is_provider_available_any(provider) == TRUE

\* fn is_provider_available(&self, provider)
is_provider_available(provider) ==
    IF provider.support_balance_check
    THEN provider.balance >= provider.min_balance_threshold
    ELSE TRUE

\* the filter of select_provider: indices (into providers) of the available
\* providers of the requested model, in list order
available_providers(model_name) ==
    SelectSeq([i \in 1..Len(providers) |-> i],
              LAMBDA i: is_provider_available(providers[i])
                        /\ providers[i].model_name = model_name)

\* variant: a fold that keeps the element seen last when the keys are equal
RECURSIVE min_fold_last(_, _, _)
min_fold_last(best, rest, keyf) ==
    IF rest = <<>> THEN best
    ELSE min_fold_last(IF keyf[Head(rest)] <= keyf[best] THEN Head(rest) ELSE best,
                       Tail(rest), keyf)

\* Iterator::min_by_key over a sequence of indices: a left fold that keeps
\* the element seen first when the keys are equal
RECURSIVE min_fold(_, _, _)
min_fold(best, rest, keyf) ==
    IF rest = <<>> THEN best
    ELSE min_fold(IF keyf[Head(rest)] < keyf[best] THEN Head(rest) ELSE best,
                  Tail(rest), keyf)

min_by_key(seq, keyf) == min_fold(Head(seq), Tail(seq), keyf)

\* self.token_usage.get(&p.api_key).map(|u| u.request_count).unwrap_or(0)
request_count_of(k) ==
    IF k \in DOMAIN token_usage THEN token_usage[k].request_count ELSE 0

\* variant: LeastTokens reading the request_count of the tally
total_tokens_of_count(k) ==
    IF k \in DOMAIN token_usage THEN token_usage[k].request_count ELSE 0

\* self.token_usage.get(&p.api_key).map(|u| u.total_tokens).unwrap_or(0)
total_tokens_of(k) ==
    IF k \in DOMAIN token_usage THEN token_usage[k].total_tokens ELSE 0

\* fn select_provider(&self, model_name, strategy) -> Option<&ProviderInfo>
\* the result is the index of the chosen provider in providers, 0 for None
select_provider(model_name, strategy) ==
    LET avail == available_providers(model_name) IN
    IF Len(providers) = 0 THEN 0
    ELSE IF Len(avail) = 0 THEN 0
    ELSE CASE strategy = "RoundRobin" ->
                avail[(current_index % Len(avail)) + 1]
           [] strategy = "LeastConnections" ->
                min_by_key(avail,
                    [i \in 1..Len(providers) |-> request_count_of(providers[i].api_key)])
           [] strategy = "LeastTokens" ->
                min_by_key(avail,
                    [i \in 1..Len(providers) |-> total_tokens_of(providers[i].api_key)])
           [] OTHER -> Head(avail)

\* variant: the cursor advanced without the modulo
update_index_unbounded == current_index + 1

\* variant: the cursor left where it is
update_index_stay == current_index

\* fn update_index(&mut self): the new value of current_index
update_index == (current_index + 1) % Len(providers)

\* u32 addition without overflow checks: the sum wraps
wrapping_add(a, b) == (a + b) % (MaxU32 + 1)

\* fn update_usage(&mut self, api_key, tokens) on the tallies `usage`: the
\* entry of the key is inserted if absent, then `total_tokens += tokens` and
\* `request_count += 1`, both on u32.  In a build without overflow checks a
\* sum that does not fit wraps; in a build with overflow checks the addition
\* panics and the tally keeps what it held at that point.
update_usage_on(usage, api_key, tokens, overflow_checks) ==
    LET old == IF api_key \in DOMAIN usage
               THEN usage[api_key]
               ELSE [total_tokens |-> 0, request_count |-> 0]
        new == IF overflow_checks /\ old.total_tokens + tokens > MaxU32
               THEN old
               ELSE IF overflow_checks /\ old.request_count + 1 > MaxU32
               THEN [old EXCEPT !.total_tokens = @ + tokens]
               ELSE [total_tokens |-> wrapping_add(old.total_tokens, tokens),
                     request_count |-> wrapping_add(old.request_count, 1)]
    IN [k \in DOMAIN usage \cup {api_key} |->
            IF k = api_key THEN new ELSE usage[k]]

\* fn update_usage(&mut self, api_key, tokens): the new value of token_usage
\* (the tallies of the gateway stay far below the width of u32, where the
\* builds do not differ)
update_usage(api_key, tokens) ==
    update_usage_on(token_usage, api_key, tokens, FALSE)

\* fn get_semaphore(&self, api_key) -> Option<Arc<Semaphore>>: 0 for None
get_semaphore(api_key) ==
    IF api_key \in DOMAIN pool_sems THEN pool_sems[api_key] ELSE 0


(***************************************************************************)
(* Table api_providers and the pool built from it                          *)
(***************************************************************************)
Row(k, st, rl, bal, th, sbc, m) ==
    [api_key |-> k, status |-> st, rate_limit |-> rl, balance |-> bal,
     balance_null |-> FALSE, last_balance_check |-> 0,
     min_balance_threshold |-> th, support_balance_check |-> sbc,
     model_name |-> m, id |-> 0, created_at |-> 0, updated_at |-> 0]

\* .map(|row| ProviderInfo { .. }) of initialize_provider_pool
\* (row_status is not a field of ProviderInfo: it remembers the status of
\* the row the record was built from)
ProviderInfo(row) ==
    [api_key |-> row.api_key,
     max_connections |-> row.rate_limit,
     retry_attempts |-> RetryAttempts,
     balance |-> row.balance,
     min_balance_threshold |-> row.min_balance_threshold,
     support_balance_check |-> row.support_balance_check,
     model_name |-> row.model_name,
     row_status |-> row.status]

\* SELECT ... FROM api_providers WHERE status = 'Active'
ActiveRows(table) == SelectSeq(table, LAMBDA row: row.status = "Active")

\* variant: a load that forgets WHERE status = 'Active'
LoadProviders_all(table) == [i \in 1..Len(table) |-> ProviderInfo(table[i])]

LoadProviders(table) ==
    LET rows == ActiveRows(table) IN [i \in 1..Len(rows) |-> ProviderInfo(rows[i])]

\* variant: semaphores created with one permit too many
NewSemaphores_plus(provs) == [i \in 1..Len(provs) |-> provs[i].max_connections + 1]

\* ProviderPoolState::new: one new Semaphore(max_connections) per provider,
\* allocated after the `n` semaphores that exist already; the map keeps the
\* semaphore inserted last for a key
NewSemaphores(provs) == [i \in 1..Len(provs) |-> provs[i].max_connections]

NewSemaphoreMap(provs, n) ==
    [k \in {provs[i].api_key : i \in 1..Len(provs)} |->
        n + (CHOOSE i \in 1..Len(provs) :
                /\ provs[i].api_key = k
                /\ \A j \in 1..Len(provs) : provs[j].api_key = k => j <= i)]

\* a ProviderInfo that is not in use
NoProvider ==
    [api_key |-> "none", max_connections |-> 0, retry_attempts |-> 0,
     balance |-> 0, min_balance_threshold |-> 0,
     support_balance_check |-> FALSE, model_name |-> "none",
     row_status |-> "none"]

(***************************************************************************)
(* Upstream answers                                                        *)
(***************************************************************************)
\* usage{prompt_tokens, completion_tokens, total_tokens} of an upstream answer
Usage(p, c, t) ==
    [some |-> TRUE, prompt_tokens |-> p, completion_tokens |-> c, total_tokens |-> t]

NoUsage ==
    [some |-> FALSE, prompt_tokens |-> 0, completion_tokens |-> 0, total_tokens |-> 0]

Usages == {Usage(1, 2, 3)}

\* what one HTTP attempt of call_api can end with
Outcomes == {"ok", "parse_err", "non2xx", "timeout", "send_err"}

\* what the connection attempt of a streaming dispatch can end with
ConnectOutcomes == {"ok", "non2xx", "send_err"}

\* what reading the next item of the upstream byte stream can yield
ChunkKinds == {"plain", "usage", "err"}

(***************************************************************************)
(* Chat dispatches                                                         *)
(***************************************************************************)
IdleReq ==
    [pc |-> "idle", stream |-> FALSE, model |-> "none", si |-> 0,
     provider |-> NoProvider, sem |-> 0, permit |-> FALSE, attempt |-> 0,
     last_error |-> "none", status |-> 0, body |-> "none",
     answer |-> NoUsage, rows |-> 0,
     chunk_count |-> 0, latest_usage |-> NoUsage,
     \* history of the dispatch, kept for the properties: the strategies
     \* handed to TokenManager::new, what the latest TokenManager::new and
     \* the latest call_api returned, the number of call_api calls, the
     \* chunks read from the upstream stream
     tried |-> <<>>, last_tm |-> "none", last_call |-> "none", calls |-> 0,
     seen |-> <<>>]

\* the strategy the dispatch hands to TokenManager::new
StrategyOf(q) == IF q.stream THEN "RoundRobin" ELSE strategies[q.si]

\* INSERT INTO api_usage: the id models the fresh uuid of the row
UsageRow(r, q, u, st) ==
    [id |-> <<r, q.rows + 1>>, provider_api_key |-> q.provider.api_key,
     prompt_tokens |-> u.prompt_tokens,
     completion_tokens |-> u.completion_tokens,
     total_tokens |-> u.total_tokens, status |-> st]

\* what is left of a dispatch that has returned: its response
Finished(q, status, body) ==
    [IdleReq EXCEPT !.pc = "done", !.stream = q.stream, !.model = q.model,
                    !.status = status, !.body = body, !.answer = q.answer,
                    !.tried = q.tried, !.last_tm = q.last_tm,
                    !.last_call = q.last_call, !.calls = q.calls,
                    !.seen = q.seen]

\* variant: a stream that goes on to the next strategy like the others
NextStrategy_cascade(q) ==
    IF q.si < Len(strategies)
    THEN [q EXCEPT !.pc = "new", !.si = @ + 1, !.permit = FALSE,
                   !.attempt = 0, !.provider = NoProvider, !.sem = 0]
    ELSE Finished(q, IF q.stream THEN 200 ELSE 503,
                  IF q.last_error = "none" THEN "unknown" ELSE q.last_error)

\* variant: a cascade that gives up after its second strategy
NextStrategy_two(q) ==
    IF q.stream
    THEN Finished(q, 200, "error_line")
    ELSE IF q.si < Len(strategies) - 1
    THEN [q EXCEPT !.pc = "new", !.si = @ + 1, !.permit = FALSE,
                   !.attempt = 0, !.provider = NoProvider, !.sem = 0]
    ELSE Finished(q, 503, IF q.last_error = "none" THEN "unknown"
                          ELSE q.last_error)

\* the end of one iteration of `for strategy in strategies.iter()` that did
\* not return: the next strategy, or the 503 after the loop.  For a stream,
\* the end of the stream after its `data: {"error": ...}` line.
NextStrategy(q) ==
    IF q.stream
    THEN Finished(q, 200, "error_line")
    ELSE IF q.si < Len(strategies)
    THEN [q EXCEPT !.pc = "new", !.si = @ + 1, !.permit = FALSE,
                   !.attempt = 0, !.provider = NoProvider, !.sem = 0]
    ELSE Finished(q, 503, IF q.last_error = "none" THEN "unknown"
                          ELSE q.last_error)

\* variant: a permit that is forgotten instead of dropped
Release_leak(q) == sems

\* dropping an OwnedSemaphorePermit gives the permit back to its semaphore
Release(q) == IF q.permit THEN [sems EXCEPT ![q.sem] = @ + 1] ELSE sems

\* variant: a MutexGuard that is kept when its block ends
Unlock_kept(holder) == holder

\* the MutexGuard of `holder` is dropped at the end of its block or
\* statement: the mutex is free again
Unlock(holder) == "free"

\* pool.lock().await by the task `holder`, which goes on once the mutex is
\* free, and the drop of the guard, within one step
Locked(holder) == mutex = "free" /\ mutex' = Unlock(holder)

\* handle_chat_completion: the request enters handle_normal_response or,
\* with stream = true, the stream body of handle_stream_response (whose
\* response head, 200 with SSE headers, is built at once)
Start(r, m, st) ==
    /\ req[r].pc = "idle"
    /\ req' = [req EXCEPT ![r] =
                 [IdleReq EXCEPT !.pc = "new", !.stream = st, !.model = m,
                                 !.si = 1, !.status = IF st THEN 200 ELSE 0]]
    /\ UNCHANGED <<db, providers, current_index, token_usage, pool_sems, sems,
                   usage_rows, adm, admits, last_op>>
    /\ UNCHANGED <<rec, adms, upstream, built, mutex>>

\* TokenManager::new, the block that holds the pool mutex: select_provider,
\* update_index for RoundRobin, get_semaphore
TmSelect(r) ==
    LET q == req[r]
        strategy == StrategyOf(q)
        i == select_provider(q.model, strategy)
        q1 == [q EXCEPT !.tried = Append(@, strategy)]
    IN
    /\ q.pc = "new"
    /\ IF i = 0
       THEN /\ req' = [req EXCEPT ![r] =
                         NextStrategy([q1 EXCEPT !.last_tm = "miss"])]
            /\ UNCHANGED current_index
       ELSE /\ current_index' = IF strategy = "RoundRobin" THEN update_index
                                ELSE current_index
            /\ IF get_semaphore(providers[i].api_key) = 0
               THEN req' = [req EXCEPT ![r] =
                              NextStrategy([q1 EXCEPT !.last_tm = "miss"])]
               ELSE req' = [req EXCEPT ![r] =
                              [q1 EXCEPT !.pc = "acquire",
                                         !.provider = providers[i],
                                         !.sem = get_semaphore(providers[i].api_key)]]
    /\ UNCHANGED <<db, providers, token_usage, pool_sems, sems, usage_rows,
                   adm, admits, last_op>>
    /\ UNCHANGED <<rec, adms, upstream, built>>
    /\ Locked(r)

\* variant: acquire_owned().await, which waits for a free permit
TmAcquire_waits(r) ==
    LET q == req[r] IN
    /\ q.pc = "acquire"
    /\ sems[q.sem] > 0
    /\ sems' = [sems EXCEPT ![q.sem] = @ - 1]
    /\ req' = [req EXCEPT ![r] =
                 [q EXCEPT !.pc = IF q.stream THEN "connect" ELSE "call",
                           !.permit = TRUE,
                           !.last_tm = "some",
                           !.calls = IF q.stream THEN @ ELSE @ + 1]]
    /\ UNCHANGED <<db, providers, current_index, token_usage, pool_sems,
                   usage_rows, adm, admits, last_op>>
    /\ UNCHANGED <<rec, adms, upstream, built, mutex>>

\* TokenManager::new, after the mutex is released: try_acquire_owned
TmAcquire(r) ==
    LET q == req[r] IN
    /\ q.pc = "acquire"
    /\ IF sems[q.sem] > 0
       THEN /\ sems' = [sems EXCEPT ![q.sem] = @ - 1]
            /\ req' = [req EXCEPT ![r] =
                         [q EXCEPT !.pc = IF q.stream THEN "connect" ELSE "call",
                                   !.permit = TRUE,
                                   !.last_tm = "some",
                                   !.calls = IF q.stream THEN @ ELSE @ + 1]]
       ELSE /\ req' = [req EXCEPT ![r] =
                         NextStrategy([q EXCEPT !.last_tm = "refused"])]
            /\ UNCHANGED sems
    /\ UNCHANGED <<db, providers, current_index, token_usage, pool_sems,
                   usage_rows, adm, admits, last_op>>
    /\ UNCHANGED <<rec, adms, upstream, built, mutex>>

\* variant: a failed upstream call that counts as a request of the key
CallFailed_tally(r, q, outcome, err) ==
    /\ usage_rows' = usage_rows \cup {UsageRow(r, q, NoUsage, "Error")}
    /\ sems' = Release(q)
    /\ req' = [req EXCEPT ![r] =
                 NextStrategy([q EXCEPT !.last_error = err, !.rows = @ + 1,
                                        !.last_call = outcome])]
    /\ token_usage' = update_usage(q.provider.api_key, 0)

\* variant: a failed upstream call that leaves no usage row
CallFailed_norow(r, q, outcome, err) ==
    /\ usage_rows' = usage_rows
    /\ sems' = Release(q)
    /\ req' = [req EXCEPT ![r] =
                 NextStrategy([q EXCEPT !.last_error = err,
                                        !.last_call = outcome])]
    /\ UNCHANGED token_usage

\* variant: last_error keeps the first error of the cascade
CallFailed_first(r, q, outcome, err) ==
    /\ usage_rows' = usage_rows \cup {UsageRow(r, q, NoUsage, "Error")}
    /\ sems' = Release(q)
    /\ req' = [req EXCEPT ![r] =
                 NextStrategy([q EXCEPT !.last_error = IF @ = "none" THEN err ELSE @,
                                        !.rows = @ + 1,
                                        !.last_call = outcome])]
    /\ UNCHANGED token_usage

\* the Err(err) arm of handle_normal_response: the Error row, last_error,
\* then the TokenManager (and its permit) is dropped as the iteration ends
CallFailed(r, q, outcome, err) ==
    /\ usage_rows' = usage_rows \cup {UsageRow(r, q, NoUsage, "Error")}
    /\ sems' = Release(q)
    /\ req' = [req EXCEPT ![r] =
                 NextStrategy([q EXCEPT !.last_error = err, !.rows = @ + 1,
                                        !.last_call = outcome])]
    /\ UNCHANGED token_usage

\* variant: the tally updated with completion_tokens
CallSucceeded_completion(r, q, u) ==
    /\ token_usage' = update_usage(q.provider.api_key, u.completion_tokens)
    /\ usage_rows' = usage_rows \cup {UsageRow(r, q, u, "Success")}
    /\ sems' = Release(q)
    /\ req' = [req EXCEPT ![r] =
                 Finished([q EXCEPT !.answer = u, !.last_call = "ok"],
                          200, "response")]

\* the Ok(response) arm of handle_normal_response: update_usage, the
\* Success row, the 200 response; the TokenManager is dropped on return
CallSucceeded(r, q, u) ==
    /\ token_usage' = update_usage(q.provider.api_key, u.total_tokens)
    /\ usage_rows' = usage_rows \cup {UsageRow(r, q, u, "Success")}
    /\ sems' = Release(q)
    /\ req' = [req EXCEPT ![r] =
                 Finished([q EXCEPT !.answer = u, !.last_call = "ok"],
                          200, "response")]

\* variant: a retry loop that allows one attempt more
CallAttempt_four(r, outcome, u) ==
    LET q == req[r]
        more == q.attempt < q.provider.retry_attempts
    IN
    /\ req[r].pc = "call"
    /\ IF outcome = "ok" THEN CallSucceeded(r, q, u)
       ELSE IF outcome = "parse_err" THEN CallFailed(r, q, outcome, "parse")
       ELSE IF outcome \in {"non2xx", "timeout"} /\ more
       THEN /\ req' = [req EXCEPT ![r] = [q EXCEPT !.attempt = @ + 1]]
            /\ UNCHANGED <<token_usage, usage_rows, sems>>
       ELSE IF outcome = "non2xx" THEN CallFailed(r, q, outcome, "status")
       ELSE CallFailed(r, q, outcome, "request")
    /\ UNCHANGED <<db, providers, current_index, pool_sems, adm, admits, last_op>>
    /\ UNCHANGED <<rec, adms, upstream, built>>
    /\ IF outcome = "ok" THEN Locked(r) ELSE UNCHANGED mutex

\* one HTTP attempt of the retry loop of call_api, and what follows it in
\* handle_normal_response when call_api returns
CallAttempt(r, outcome, u) ==
    LET q == req[r]
        more == q.attempt < q.provider.retry_attempts - 1
    IN
    /\ req[r].pc = "call"
    /\ IF outcome = "ok" THEN CallSucceeded(r, q, u)
       ELSE IF outcome = "parse_err" THEN CallFailed(r, q, outcome, "parse")
       ELSE IF outcome \in {"non2xx", "timeout"} /\ more
       THEN /\ req' = [req EXCEPT ![r] = [q EXCEPT !.attempt = @ + 1]]
            /\ UNCHANGED <<token_usage, usage_rows, sems>>
       ELSE IF outcome = "non2xx" THEN CallFailed(r, q, outcome, "status")
       ELSE CallFailed(r, q, outcome, "request")
    /\ UNCHANGED <<db, providers, current_index, pool_sems, adm, admits, last_op>>
    /\ UNCHANGED <<rec, adms, upstream, built>>
    /\ IF outcome = "ok" THEN Locked(r) ELSE UNCHANGED mutex


(***************************************************************************)
(* Streaming dispatches (handle_stream_response)                           *)
(***************************************************************************)
\* client.post(..).send().await of the stream body
Connect(r, outcome) ==
    LET q == req[r] IN
    /\ req[r].pc = "connect"
    /\ IF outcome = "ok"
       THEN /\ req' = [req EXCEPT ![r] = [q EXCEPT !.pc = "streaming"]]
            /\ UNCHANGED sems
       ELSE /\ req' = [req EXCEPT ![r] = NextStrategy(q)]
            /\ sems' = Release(q)
    /\ UNCHANGED <<db, providers, current_index, token_usage, pool_sems,
                   usage_rows, adm, admits, last_op>>
    /\ UNCHANGED <<rec, adms, upstream, built, mutex>>

\* variant: the first usage triple stays latched
ChunkStep_first(r, kind, u, cap) ==
    LET q == req[r] IN
    /\ q.pc = "streaming"
    /\ q.chunk_count < cap
    /\ IF kind = "err"
       THEN /\ req' = [req EXCEPT ![r] = NextStrategy(q)]
            /\ sems' = Release(q)
       ELSE /\ req' = [req EXCEPT ![r] =
                         [q EXCEPT !.chunk_count = @ + 1,
                                   !.latest_usage =
                                       IF kind = "usage" /\ ~@.some THEN u ELSE @,
                                   !.seen = Append(@,
                                       [kind |-> kind,
                                        usage |-> IF kind = "usage" THEN u
                                                  ELSE NoUsage])]]
            /\ UNCHANGED sems
    /\ UNCHANGED <<db, providers, current_index, token_usage, pool_sems,
                   usage_rows, adm, admits, last_op>>
    /\ UNCHANGED <<rec, adms, upstream, built, mutex>>

\* one turn of `while let Some(chunk) = stream.next().await`, for a stream
\* of at most `cap` chunks: a read error ("err"), which ends the stream
\* after an error line; a chunk from which the usage triple u is parsed
\* ("usage"), which is latched; or a chunk of any other kind (no "usage" in
\* its text, text that is not JSON, a usage object without the three
\* numbers), which is forwarded and leaves the latched value alone
ChunkStep(r, kind, u, cap) ==
    LET q == req[r] IN
    /\ q.pc = "streaming"
    /\ q.chunk_count < cap
    /\ IF kind = "err"
       THEN /\ req' = [req EXCEPT ![r] = NextStrategy(q)]
            /\ sems' = Release(q)
       ELSE /\ req' = [req EXCEPT ![r] =
                         [q EXCEPT !.chunk_count = @ + 1,
                                   !.latest_usage =
                                       IF kind = "usage" THEN u ELSE @,
                                   !.seen = Append(@,
                                       [kind |-> kind,
                                        usage |-> IF kind = "usage" THEN u
                                                  ELSE NoUsage])]]
            /\ UNCHANGED sems
    /\ UNCHANGED <<db, providers, current_index, token_usage, pool_sems,
                   usage_rows, adm, admits, last_op>>
    /\ UNCHANGED <<rec, adms, upstream, built, mutex>>

Chunk(r, kind, u) == ChunkStep(r, kind, u, MaxChunks)

\* variant: accounting that ignores the number of chunks forwarded
StreamEnd_nocount(r) ==
    LET q == req[r] IN
    /\ q.pc = "streaming"
    /\ IF q.latest_usage.some
       THEN /\ token_usage' =
                  update_usage(q.provider.api_key, q.latest_usage.total_tokens)
            /\ usage_rows' =
                  usage_rows \cup {UsageRow(r, q, q.latest_usage, "Success")}
            /\ req' = [req EXCEPT ![r] = Finished(q, 200, "stream")]
       ELSE /\ usage_rows' = usage_rows \cup {UsageRow(r, q, NoUsage, "Error")}
            /\ req' = [req EXCEPT ![r] = Finished(q, 200, "stream")]
            /\ UNCHANGED token_usage
    /\ sems' = Release(q)
    /\ UNCHANGED <<db, providers, current_index, pool_sems, adm, admits, last_op>>
    /\ UNCHANGED <<rec, adms, upstream, built>>
    /\ IF req[r].latest_usage.some THEN Locked(r) ELSE UNCHANGED mutex

\* the upstream stream is exhausted: the accounting after the loop
StreamEnd(r) ==
    LET q == req[r] IN
    /\ q.pc = "streaming"
    /\ IF q.latest_usage.some
       THEN /\ token_usage' =
                  update_usage(q.provider.api_key, q.latest_usage.total_tokens)
            /\ usage_rows' =
                  usage_rows \cup {UsageRow(r, q, q.latest_usage, "Success")}
            /\ req' = [req EXCEPT ![r] = Finished(q, 200, "stream")]
       ELSE /\ usage_rows' =
                  usage_rows \cup
                  {UsageRow(r, q, NoUsage,
                            IF q.chunk_count > 0 THEN "PartialSuccess" ELSE "Error")}
            /\ req' = [req EXCEPT ![r] = Finished(q, 200, "stream")]
            /\ UNCHANGED token_usage
    /\ sems' = Release(q)
    /\ UNCHANGED <<db, providers, current_index, pool_sems, adm, admits, last_op>>
    /\ UNCHANGED <<rec, adms, upstream, built>>
    /\ IF req[r].latest_usage.some THEN Locked(r) ELSE UNCHANGED mutex

\* the client goes away: the response body, and with it the stream and its
\* TokenManager, is dropped at the await the stream is suspended in
Cancel(r) ==
    LET q == req[r] IN
    /\ q.stream
    /\ q.pc \in {"new", "connect", "streaming"}
    /\ req' = [req EXCEPT ![r] = Finished(q, 200, "cancelled")]
    /\ sems' = Release(q)
    /\ UNCHANGED <<db, providers, current_index, token_usage, pool_sems,
                   usage_rows, adm, admits, last_op>>
    /\ UNCHANGED <<rec, adms, upstream, built, mutex>>

(***************************************************************************)
(* Admission (batch_add_providers with one credential; add_provider        *)
(* follows the same insert / reload / swap steps)                          *)
(***************************************************************************)
AdmitRequest(k, rl, sbc) ==
    [api_key |-> k, model_name |-> "M", rate_limit |-> rl,
     min_balance_threshold |-> 1, support_balance_check |-> sbc]

AdmitRequests == {AdmitRequest("A", 1, FALSE), AdmitRequest("C", 2, TRUE)}

IdleAdm ==
    [pc |-> "idle", request |-> AdmitRequest("none", 0, FALSE), balance |-> 0,
     new_providers |-> <<>>, new_sems |-> [k \in {} |-> 0],
     new_table |-> <<>>]

\* the temporary ProviderInfo with balance 0.0; without
\* support_balance_check its balance is the verified balance
AdmitStart(rq) ==
    /\ adm.pc = "idle"
    /\ admits < MaxAdmits
    /\ admits' = admits + 1
    /\ adm' = [IdleAdm EXCEPT !.request = rq,
                              !.pc = IF rq.support_balance_check
                                     THEN "verify" ELSE "insert"]
    /\ UNCHANGED <<db, providers, current_index, token_usage, pool_sems, sems,
                   req, usage_rows, last_op>>
    /\ UNCHANGED <<rec, adms, upstream, built, mutex>>

\* verify_api_key and the threshold test on its answer
AdmitVerify(outcome, b) ==
    /\ adm.pc = "verify"
    /\ adm' = IF outcome = "ok" /\ ~(b < adm.request.min_balance_threshold)
              THEN [adm EXCEPT !.pc = "insert", !.balance = b]
              ELSE IdleAdm
    /\ UNCHANGED <<db, providers, current_index, token_usage, pool_sems, sems,
                   req, usage_rows, admits, last_op>>
    /\ UNCHANGED <<rec, adms, upstream, built, mutex>>

\* INSERT OR REPLACE INTO api_providers: the row of the same api_key, if
\* any, is deleted and the new row gets the next rowid
Upsert(table, rq, bal) ==
    Append(SelectSeq(table, LAMBDA row: row.api_key # rq.api_key),
           Row(rq.api_key, "Active", rq.rate_limit, bal,
               rq.min_balance_threshold, rq.support_balance_check,
               rq.model_name))

AdmitInsert ==
    /\ adm.pc = "insert"
    /\ db' = Upsert(db, adm.request, adm.balance)
    /\ adm' = [adm EXCEPT !.pc = "load"]
    /\ UNCHANGED <<providers, current_index, token_usage, pool_sems, sems,
                   req, usage_rows, admits, last_op>>
    /\ UNCHANGED <<rec, adms, upstream, built, mutex>>

\* initialize_provider_pool(&state.db): a new ProviderPoolState, with new
\* semaphores, that is not yet the shared one
AdmitLoad ==
    LET provs == LoadProviders(db) IN
    /\ adm.pc = "load"
    /\ sems' = sems \o NewSemaphores(provs)
    /\ adm' = [adm EXCEPT !.pc = "swap", !.new_providers = provs,
                          !.new_sems = NewSemaphoreMap(provs, Len(sems)),
                          !.new_table = db]
    /\ UNCHANGED <<db, providers, current_index, token_usage, pool_sems,
                   req, usage_rows, admits, last_op>>
    /\ UNCHANGED <<rec, adms, upstream, built, mutex>>

\* let mut pool = state.provider_pool.lock().await; *pool = new_pool;
AdmitSwap ==
    /\ adm.pc = "swap"
    /\ providers' = adm.new_providers
    /\ current_index' = 0
    /\ token_usage' = [k \in {} |-> 0]
    /\ pool_sems' = adm.new_sems
    /\ adm' = IdleAdm
    /\ built' = adm.new_table
    /\ UNCHANGED <<db, sems, req, usage_rows, admits, last_op>>
    /\ UNCHANGED <<rec, adms, upstream>>
    /\ Locked("adm")

(***************************************************************************)
(* The gateway: dispatches and admissions running concurrently             *)
(***************************************************************************)
NoOp == [op |-> "none", model |-> "none", strategy |-> "none", result |-> 0,
         key |-> "none", tokens |-> 0]

\* the provider table the process starts with
InitDbs ==
    {<<Row("A", "Active", 1, 0, 0, FALSE, "M"),
       Row("B", st, 1, bal, 1, TRUE, "M")>> :
        st \in {"Active", "Inactive"}, bal \in {0, 2}}

\* the handlers of POST /v1/providers and POST /v1/providers/batch that
\* can run at once
AdmIds == {"a1", "a2"}

\* a handler that has not been called
IdleAdmission ==
    [pc |-> "idle", path |-> "none", request |-> AdmitRequest("none", 0, FALSE),
     balance |-> 0, id |-> 0, outcome |-> "none", reported |-> 0,
     result |-> "none", removed |-> "none",
     new_providers |-> <<>>, new_sems |-> [k \in {} |-> 0], new_table |-> <<>>]

\* an endpoint whose answers are not fixed: each request is answered anew
AnyAnswer == [k \in {} |-> 0]

\* the reconciler between two cycles, none made yet
IdleRec ==
    [pc |-> "idle", rows |-> <<>>, i |-> 0, cycles |-> 0, queried |-> {},
     left |-> {}]

\* app_routes: the shared pool is initialize_provider_pool(&pool)
InitFromWith(table, up) ==
    /\ db = table
    /\ providers = LoadProviders(table)
    /\ current_index = 0
    /\ token_usage = [k \in {} |-> 0]
    /\ pool_sems = NewSemaphoreMap(LoadProviders(table), 0)
    /\ sems = NewSemaphores(LoadProviders(table))
    /\ usage_rows = {}
    /\ adm = IdleAdm
    /\ admits = 0
    /\ last_op = NoOp
    /\ rec = IdleRec
    /\ adms = [a \in AdmIds |-> IdleAdmission]
    /\ upstream = up
    /\ built = table
    /\ mutex = "free"

\* the same, the answers of the user-info endpoint not being fixed
InitFrom(table) == InitFromWith(table, AnyAnswer)

Init ==
    /\ \E table \in InitDbs : InitFrom(table)
    /\ req = [r \in Reqs |-> IdleReq]

Next ==
    \/ \E r \in Reqs, m \in Models, st \in BOOLEAN : Start(r, m, st)
    \/ \E r \in Reqs : TmSelect(r)
    \/ \E r \in Reqs : TmAcquire(r)
    \/ \E r \in Reqs, o \in Outcomes, u \in Usages : CallAttempt(r, o, u)
    \/ \E r \in Reqs, o \in ConnectOutcomes : Connect(r, o)
    \/ \E r \in Reqs, kind \in ChunkKinds, u \in Usages : Chunk(r, kind, u)
    \/ \E r \in Reqs : StreamEnd(r)
    \/ \E r \in Reqs : Cancel(r)
    \/ \E rq \in AdmitRequests : AdmitStart(rq)
    \/ \E o \in {"ok", "err"}, b \in {0, 2} : AdmitVerify(o, b)
    \/ AdmitInsert
    \/ AdmitLoad
    \/ AdmitSwap

Spec == Init /\ [][Next]_vars


(***************************************************************************)
(* Properties of the gateway (specification Spec)                          *)
(***************************************************************************)
IsPrefix(s, t) == Len(s) <= Len(t) /\ \A i \in 1..Len(s) : s[i] = t[i]

SetMax(S) == CHOOSE x \in S : \A y \in S : y <= x

\* dispatches that hold a permit taken for key k
InFlight(k) ==
    Cardinality({r \in DOMAIN req : req[r].permit /\ req[r].provider.api_key = k})

\* every rate_limit key k has anywhere: in its row, in the pool and in the
\* records the dispatches hold
RateLimitsOf(k) ==
    {db[i].rate_limit : i \in {j \in 1..Len(db) : db[j].api_key = k}}
    \cup {providers[i].max_connections :
            i \in {j \in 1..Len(providers) : providers[j].api_key = k}}
    \cup {req[r].provider.max_connections :
            r \in {x \in DOMAIN req : req[x].provider.api_key = k}}

\* C1: the dispatches in flight against a key never outnumber the key's
\* rate_limit (the largest rate_limit the key has anywhere, so that a
\* violation is one under every reading of rate_limit(k))
C1_InFlightWithinRateLimit ==
    \A k \in Keys : InFlight(k) > 0 => InFlight(k) <= SetMax(RateLimitsOf(k))

\* C2: a dispatch that has its semaphore can always take the try_acquire
\* step at once, whatever the number of free permits
C2_AcquireNeverWaits ==
    \A r \in Reqs : req[r].pc = "acquire" => ENABLED TmAcquire(r)

\* a dispatch was refused a permit that another dispatch holds, and went on
C2_Witness ==
    \E r \in Reqs, h \in Reqs :
        /\ r # h
        /\ req[r].last_tm = "refused"
        /\ req[r].pc = "new"
        /\ req[h].permit
        /\ sems[req[h].sem] = 0

\* the available providers of model m, as a set of indices
MatchingAvail(m) ==
    {i \in 1..Len(providers) :
        /\ providers[i].model_name = m
        /\ (~providers[i].support_balance_check
            \/ providers[i].balance >= providers[i].min_balance_threshold)}

\* the element number n (from 0) of a set of indices taken in list order
NthOf(S, n) == CHOOSE i \in S : Cardinality({j \in S : j < i}) = n

\* the step of dispatch r is the locked block of TokenManager::new
IsSelectStep(r) ==
    req[r].pc = "new" /\ Len(req'[r].tried) = Len(req[r].tried) + 1

\* C4: a RoundRobin acquisition that finds a provider takes the one at
\* cursor mod (number of available matching providers) and moves the cursor
\* by one modulo the length of the whole list; nothing else a dispatch does
\* (other strategies, permit acquisition, the upstream call) moves the cursor
C4_RoundRobinCursor ==
    [][\A r \in Reqs :
        LET q == req[r]
            S == MatchingAvail(q.model)
        IN IF IsSelectStep(r)
           THEN IF StrategyOf(q) = "RoundRobin" /\ S # {}
                THEN /\ current_index' = (current_index + 1) % Len(providers)
                     /\ req'[r].pc = "acquire"
                     /\ req'[r].provider =
                            providers[NthOf(S, current_index % Cardinality(S))]
                ELSE current_index' = current_index
           ELSE req'[r] # q => current_index' = current_index]_vars

\* two RoundRobin acquisitions took the two providers in turn and the
\* cursor has wrapped around
C4_Witness ==
    /\ Len(providers) = 2
    /\ current_index = 0
    /\ req["r1"].pc = "call" /\ req["r1"].tried = <<"RoundRobin">>
    /\ req["r1"].provider.api_key = providers[1].api_key
    /\ req["r2"].pc = "call" /\ req["r2"].tried = <<"RoundRobin">>
    /\ req["r2"].provider.api_key = providers[2].api_key

\* an upper bound of the steps a non-streaming dispatch has left
Measure(q) ==
    CASE q.pc = "idle" -> 5 * Len(strategies) + 1
      [] q.pc = "done" -> 0
      [] q.pc = "new" -> 5 * (Len(strategies) - q.si) + 5
      [] q.pc = "acquire" -> 5 * (Len(strategies) - q.si) + 4
      [] q.pc = "call" -> 5 * (Len(strategies) - q.si) + 3 - q.attempt
      [] OTHER -> 0

\* a step of a non-streaming dispatch that is under way
DispatchStep(r) ==
    \/ TmSelect(r)
    \/ TmAcquire(r)
    \/ \E o \in Outcomes, u \in Usages : CallAttempt(r, o, u)

\* C8: a non-streaming dispatch hands RoundRobin, LeastConnections,
\* LeastTokens to TokenManager::new in that order, goes to the next
\* strategy without an upstream call when it gets None, makes at most 3
\* upstream calls (one call_api per strategy, each of at most
\* retry_attempts HTTP requests), and terminates: it can always take a
\* step, and every step brings it nearer to its end
C8_Cascade ==
    /\ [](\A r \in Reqs : ~req[r].stream =>
            /\ IsPrefix(req[r].tried, strategies)
            /\ req[r].calls <= Len(req[r].tried)
            /\ req[r].calls <= 3
            /\ req[r].attempt <= RetryAttempts - 1
            /\ req[r].pc = "new" => Len(req[r].tried) = req[r].si - 1
            /\ req[r].pc \in {"acquire", "call"} => Len(req[r].tried) = req[r].si
            /\ req[r].pc \in {"new", "acquire", "call"} => ENABLED DispatchStep(r))
    /\ [][\A r \in Reqs : (~req'[r].stream /\ req'[r] # req[r]) =>
            /\ Measure(req'[r]) < Measure(req[r])
            /\ (req[r].pc \in {"new", "acquire"} /\ req'[r].pc # "acquire"
                /\ req'[r].pc # "call") =>
                    /\ req'[r].last_tm \in {"miss", "refused"}
                    /\ req'[r].calls = req[r].calls
                    /\ IF req[r].si < 3
                       THEN req'[r].pc = "new" /\ req'[r].si = req[r].si + 1
                       ELSE req'[r].pc = "done" /\ req'[r].status = 503]_vars

\* a dispatch ended after three upstream calls
C8_Witness ==
    \E r \in Reqs : req[r].pc = "done" /\ ~req[r].stream /\ req[r].calls = 3
                    /\ req[r].tried = strategies

\* the error string call_api returns for the outcome of its last attempt
ErrorOf(outcome) ==
    CASE outcome = "parse_err" -> "parse"
      [] outcome = "non2xx" -> "status"
      [] outcome \in {"timeout", "send_err"} -> "request"
      [] OTHER -> "unknown"

\* a non-streaming dispatch answers 200 iff an upstream call succeeded, and
\* 503 iff the three strategies were used up without one
AnswersByOutcome(r) ==
    /\ req[r].status \in {200, 503}
    /\ req[r].status = 200 <=> req[r].last_call = "ok"
    /\ req[r].status = 503 <=> (req[r].last_call # "ok" /\ Len(req[r].tried) = 3)

\* C9 as stated: the body of every 503 quotes an upstream error string
C9_AsStated ==
    \A r \in Reqs : (req[r].pc = "done" /\ ~req[r].stream) =>
        /\ AnswersByOutcome(r)
        /\ req[r].status = 503 => req[r].body \in {"parse", "status", "request"}

\* C9, amended: the body of a 503 quotes the error of the last upstream
\* call that failed, and the placeholder when no upstream call was made
C9_Response ==
    \A r \in Reqs :
        /\ (req[r].pc = "done" /\ ~req[r].stream) =>
            /\ AnswersByOutcome(r)
            /\ req[r].status = 503 =>
                 req[r].body = IF req[r].last_call = "none" THEN "unknown"
                               ELSE ErrorOf(req[r].last_call)
        /\ (req[r].pc # "done" /\ ~req[r].stream) => req[r].status = 0

\* a 503 after two failed upstream calls with different errors, the last
\* strategy having found no permit
C9_Witness ==
    \E r \in Reqs :
        /\ req[r].pc = "done" /\ req[r].status = 503
        /\ req[r].calls = 2
        /\ req[r].last_tm = "refused"
        /\ req[r].last_call = "non2xx" /\ req[r].body = "status"

\* C10: the step in which an upstream call succeeds adds the upstream
\* total_tokens and one request to the tally of the serving key and to no
\* other, inserts one Success row with that key and the upstream numbers,
\* and ends the dispatch with 200; a dispatch changes the tallies in no
\* other step and does nothing after its response
C10_Success ==
    [][\A r \in Reqs :
        LET q == req[r]
            k == q.provider.api_key
            u == req'[r].answer
            old == IF k \in DOMAIN token_usage THEN token_usage[k]
                   ELSE [total_tokens |-> 0, request_count |-> 0]
            new == usage_rows' \ usage_rows
        IN
        /\ (~q.stream /\ q.pc = "call" /\ req'[r].last_call = "ok") =>
              /\ u \in Usages
              /\ DOMAIN token_usage' = DOMAIN token_usage \cup {k}
              /\ token_usage'[k].total_tokens = old.total_tokens + u.total_tokens
              /\ token_usage'[k].request_count = old.request_count + 1
              /\ \A k2 \in DOMAIN token_usage \ {k} :
                    token_usage'[k2] = token_usage[k2]
              /\ usage_rows \subseteq usage_rows'
              /\ Cardinality(new) = 1
              /\ \A row \in new :
                    /\ row.status = "Success"
                    /\ row.provider_api_key = k
                    /\ row.prompt_tokens = u.prompt_tokens
                    /\ row.completion_tokens = u.completion_tokens
                    /\ row.total_tokens = u.total_tokens
              /\ req'[r].pc = "done"
              /\ req'[r].status = 200
              /\ req'[r].calls = q.calls
        /\ (~q.stream /\ req'[r] # q /\ token_usage' # token_usage) =>
              (q.pc = "call" /\ req'[r].last_call = "ok")
        /\ q.pc = "done" => req'[r] = q]_vars

\* a dispatch was served by its second upstream call, and the tally of the
\* serving key holds its tokens
C10_Witness ==
    \E r \in Reqs :
        /\ req[r].pc = "done" /\ ~req[r].stream /\ req[r].status = 200
        /\ req[r].calls = 2
        /\ \E row \in usage_rows :
              /\ row.id[1] = r /\ row.status = "Success"
              /\ row.provider_api_key \in DOMAIN token_usage
              /\ token_usage[row.provider_api_key].total_tokens = row.total_tokens


\* the usage rows of dispatch r
RowsOf(r) == {row \in usage_rows : row.id[1] = r}

\* the step ends one strategy of the non-streaming dispatch r without a
\* response: the dispatch goes to its next strategy or to the 503
LeavesStrategy(r) ==
    /\ ~req[r].stream
    /\ req[r].pc \in {"new", "acquire", "call"}
    /\ \/ req'[r].pc = "new" /\ req'[r].si = req[r].si + 1
       \/ req'[r].pc = "done" /\ req'[r].status = 503

\* C11 as stated: every step that ends a strategy without a response (a
\* failed upstream call, a refused permit, a selection miss) inserts
\* exactly one Error row with zero tokens
C11_AsStated ==
    [][\A r \in Reqs : LeavesStrategy(r) =>
          /\ Cardinality(usage_rows' \ usage_rows) = 1
          /\ \A row \in usage_rows' \ usage_rows :
                row.status = "Error" /\ row.total_tokens = 0]_vars

\* C11, amended: a failed upstream call inserts exactly one Error row with
\* zero tokens and the key of the provider called; a selection miss and a
\* refused permit insert no row
C11_ErrorRows ==
    [][\A r \in Reqs : LeavesStrategy(r) =>
          IF req[r].pc = "call"
          THEN /\ usage_rows \subseteq usage_rows'
               /\ Cardinality(usage_rows' \ usage_rows) = 1
               /\ \A row \in usage_rows' \ usage_rows :
                     /\ row.id[1] = r
                     /\ row.status = "Error"
                     /\ row.provider_api_key = req[r].provider.api_key
                     /\ row.prompt_tokens = 0
                     /\ row.completion_tokens = 0
                     /\ row.total_tokens = 0
               /\ req'[r].last_call \in {"parse_err", "non2xx", "timeout", "send_err"}
          ELSE /\ usage_rows' = usage_rows
               /\ req'[r].last_tm \in {"miss", "refused"}]_vars

\* a 503 after one failed upstream call and a refused permit: one Error row
C11_Witness ==
    \E r \in Reqs :
        /\ req[r].pc = "done" /\ req[r].status = 503
        /\ req[r].calls = 1 /\ req[r].last_tm = "refused"
        /\ Cardinality(RowsOf(r)) = 1
        /\ \A row \in RowsOf(r) : row.status = "Error" /\ row.total_tokens = 0

\* a step of dispatch r, of whichever kind
DispatchProgress(r) ==
    \/ TmSelect(r)
    \/ TmAcquire(r)
    \/ \E o \in Outcomes, u \in Usages : CallAttempt(r, o, u)
    \/ \E o \in ConnectOutcomes : Connect(r, o)
    \/ \E kind \in ChunkKinds, u \in Usages : Chunk(r, kind, u)
    \/ StreamEnd(r)
    \/ Cancel(r)

\* the dispatcher alone, over a pool that is not rebuilt
NextServe ==
    \/ \E r \in Reqs, m \in Models, st \in BOOLEAN : Start(r, m, st)
    \/ \E r \in Reqs : TmSelect(r)
    \/ \E r \in Reqs : TmAcquire(r)
    \/ \E r \in Reqs, o \in Outcomes, u \in Usages : CallAttempt(r, o, u)
    \/ \E r \in Reqs, o \in ConnectOutcomes : Connect(r, o)
    \/ \E r \in Reqs, kind \in ChunkKinds, u \in Usages : Chunk(r, kind, u)
    \/ \E r \in Reqs : StreamEnd(r)
    \/ \E r \in Reqs : Cancel(r)

\* the dispatcher with its scheduling: the runtime runs every task that can
\* run, and every upstream request returns or times out (call_api and the
\* streaming client both set a timeout), so a dispatch under way takes its
\* next step
SpecServe ==
    Init /\ [][NextServe]_vars /\ \A r \in Reqs : WF_vars(DispatchProgress(r))

\* C13: a dispatch is in an upstream call (non-streaming call, streaming
\* connection, reading the stream) only while it holds a permit, taken
\* from the semaphore it was given; it gives the permit back to that
\* semaphore in the step in which the call or stream ends, on every path,
\* and every permit taken is given back eventually
C13_PermitHeld ==
    /\ [](\A r \in Reqs :
            /\ req[r].permit <=> req[r].pc \in {"call", "connect", "streaming"}
            /\ req[r].permit => req[r].sem \in 1..Len(sems) /\ sems[req[r].sem] >= 0)
    /\ [][\A r \in Reqs :
            /\ (~req[r].permit /\ req'[r].permit) =>
                  /\ req[r].pc = "acquire"
                  /\ req'[r].sem = req[r].sem
                  /\ sems'[req[r].sem] = sems[req[r].sem] - 1
            /\ (req[r].permit /\ req'[r].permit) =>
                  /\ req'[r].sem = req[r].sem
                  /\ req'[r] # req[r] => sems'[req[r].sem] = sems[req[r].sem]
            /\ (req[r].permit /\ ~req'[r].permit) =>
                  /\ sems'[req[r].sem] = sems[req[r].sem] + 1
                  /\ req'[r].pc \in {"new", "done"}]_vars
    /\ \A r \in Reqs : req[r].permit ~> ~req[r].permit

\* a stream ended by an error after its provider was acquired, no dispatch
\* holds a permit and every semaphore is full again
C13_Witness ==
    /\ \E r \in Reqs :
          /\ req[r].pc = "done" /\ req[r].stream
          /\ req[r].body = "error_line" /\ req[r].last_tm = "some"
    /\ \A r \in Reqs : req[r].pc = "done"
    /\ \A i \in 1..Len(sems) : sems[i] >= 1

\* the step of the streaming dispatch r fails before the stream is read:
\* no provider, no permit, or no 2xx answer to the connection
StreamFailsEarly(r) ==
    /\ req[r].stream
    /\ req[r].pc \in {"new", "acquire", "connect"}
    /\ req'[r] # req[r]
    /\ req'[r].pc \notin {"acquire", "connect", "streaming"}
    /\ req'[r].body # "cancelled"

\* C14: a streaming dispatch hands only RoundRobin to TokenManager::new,
\* once; its response is 200 from the start; when the selection, the
\* permit or the connection fails it ends with the error line, without
\* another strategy or provider
C14_StreamRoundRobinOnly ==
    /\ [](\A r \in Reqs : req[r].stream =>
            /\ req[r].status = 200
            /\ IsPrefix(req[r].tried, <<"RoundRobin">>)
            /\ req[r].calls = 0
            /\ req[r].pc # "done" => req[r].si = 1)
    /\ [][\A r \in Reqs : StreamFailsEarly(r) =>
            /\ req'[r].pc = "done"
            /\ req'[r].body = "error_line"
            /\ req'[r].status = 200
            /\ req'[r].tried = <<"RoundRobin">>
            /\ ~req'[r].permit]_vars

\* a stream that was refused the permit has ended with its error line
C14_Witness ==
    \E r \in Reqs :
        /\ req[r].pc = "done" /\ req[r].stream /\ req[r].status = 200
        /\ req[r].body = "error_line" /\ req[r].last_tm = "refused"
        /\ req[r].tried = <<"RoundRobin">>

\* the step is the accounting of dispatch r after its upstream stream ended
IsStreamEnd(r) ==
    req[r].stream /\ req[r].pc = "streaming" /\ req'[r].body = "stream"

\* C15: when the upstream stream ends the dispatcher inserts exactly one
\* usage row: with a latched usage triple a Success row carrying it, and
\* update_usage(key, total); else, with at least one chunk forwarded, a
\* PartialSuccess row with zero tokens; else an Error row with zero
\* tokens; in the last two cases the tallies are unchanged
C15_StreamEndRow ==
    [][\A r \in Reqs : IsStreamEnd(r) =>
        LET q == req[r]
            k == q.provider.api_key
            old == IF k \in DOMAIN token_usage THEN token_usage[k]
                   ELSE [total_tokens |-> 0, request_count |-> 0]
            new == usage_rows' \ usage_rows
        IN /\ usage_rows \subseteq usage_rows'
           /\ Cardinality(new) = 1
           /\ \A row \in new :
                /\ row.id[1] = r
                /\ row.provider_api_key = k
                /\ IF q.latest_usage.some
                   THEN /\ row.status = "Success"
                        /\ row.prompt_tokens = q.latest_usage.prompt_tokens
                        /\ row.completion_tokens = q.latest_usage.completion_tokens
                        /\ row.total_tokens = q.latest_usage.total_tokens
                        /\ token_usage'[k].total_tokens =
                              old.total_tokens + q.latest_usage.total_tokens
                        /\ token_usage'[k].request_count = old.request_count + 1
                        /\ \A k2 \in DOMAIN token_usage \ {k} :
                              token_usage'[k2] = token_usage[k2]
                   ELSE /\ row.status = IF q.chunk_count > 0 THEN "PartialSuccess"
                                        ELSE "Error"
                        /\ row.prompt_tokens = 0
                        /\ row.completion_tokens = 0
                        /\ row.total_tokens = 0
                        /\ token_usage' = token_usage]_vars

\* a stream of two chunks without usage has ended: one PartialSuccess row
C15_Witness ==
    \E r \in Reqs :
        /\ req[r].pc = "done" /\ req[r].body = "stream" /\ Len(req[r].seen) = 2
        /\ Cardinality(RowsOf(r)) = 1
        /\ \A row \in RowsOf(r) : row.status = "PartialSuccess" /\ row.total_tokens = 0

\* C17 as stated: a streaming dispatch that acquired a provider and ended
\* on its own (the client did not go away) has written exactly one usage row
C17_OneRowPerStream ==
    \A r \in Reqs :
        (req[r].pc = "done" /\ req[r].stream /\ req[r].last_tm = "some"
         /\ req[r].body # "cancelled") => Cardinality(RowsOf(r)) = 1

\* C18 as stated: when the client goes away while the stream is read, the
\* permit is given back and one usage row is written for what was seen:
\* Success with the latched usage, else PartialSuccess after at least one
\* chunk, else Error
C18_CancelAccounted ==
    [][\A r \in Reqs :
        (req[r].stream /\ req[r].pc = "streaming" /\ req'[r].body = "cancelled") =>
            /\ ~req'[r].permit
            /\ sems'[req[r].sem] = sems[req[r].sem] + 1
            /\ Cardinality(usage_rows' \ usage_rows) = 1
            /\ \A row \in usage_rows' \ usage_rows :
                  row.status = IF req[r].latest_usage.some THEN "Success"
                               ELSE IF req[r].chunk_count > 0 THEN "PartialSuccess"
                               ELSE "Error"]_vars

(***************************************************************************)
(* The pool on its own (specifications SpecPool and SpecTokens): a pool    *)
(* built from a table, selections as TokenManager::new makes them, and     *)
(* update_usage                                                            *)
(***************************************************************************)
\* the locked block of TokenManager::new, seen from the pool: the result of
\* select_provider, and update_index after a RoundRobin selection
PoolSelect(m, s) ==
    LET i == select_provider(m, s) IN
    /\ last_op' = [op |-> "select", model |-> m, strategy |-> s, result |-> i,
                   key |-> IF i = 0 THEN "none" ELSE providers[i].api_key,
                   tokens |-> 0]
    /\ current_index' = IF i # 0 /\ s = "RoundRobin" THEN update_index
                        ELSE current_index
    /\ UNCHANGED <<db, providers, token_usage, pool_sems, sems, req,
                   usage_rows, adm, admits>>
    /\ UNCHANGED <<rec, adms, upstream, built>>
    /\ Locked("tm")

\* TokenManager::update_usage for a key of the pool
PoolUpdateUsage(k, n, cap) ==
    /\ k \in {providers[i].api_key : i \in 1..Len(providers)}
    /\ total_tokens_of(k) + n <= cap
    /\ token_usage' = update_usage(k, n)
    /\ last_op' = [op |-> "update_usage", model |-> "none",
                   strategy |-> "none", result |-> 0, key |-> k, tokens |-> n]
    /\ UNCHANGED <<db, providers, current_index, pool_sems, sems, req,
                   usage_rows, adm, admits>>
    /\ UNCHANGED <<rec, adms, upstream, built>>
    /\ Locked("tm")

\* rows a key can have: available for M, below its threshold, available
\* for N, not Active
RowChoices(k) ==
    {Row(k, "Active", 1, 0, 0, FALSE, "M"),
     Row(k, "Active", 1, 0, 1, TRUE, "M"),
     Row(k, "Active", 1, 2, 1, TRUE, "N"),
     Row(k, "Inactive", 1, 2, 1, TRUE, "M")}

PoolDbs ==
    {<<>>}
    \cup {<<a, b, c>> : a \in {Row("A", "Active", 1, 0, 0, FALSE, "M"),
                               Row("A", "Active", 1, 0, 1, TRUE, "M")},
                        b \in RowChoices("B"), c \in RowChoices("C")}

InitPool ==
    /\ \E table \in PoolDbs : InitFrom(table)
    /\ req = [r \in {} |-> IdleReq]

NextPool ==
    \/ \E m \in Models, s \in StrategyTags : PoolSelect(m, s)
    \/ \E k \in Keys, n \in {1, 2} : PoolUpdateUsage(k, n, MaxTally)

SpecPool == InitPool /\ [][NextPool]_vars

\* the step is a selection with strategy s
Selected(s) == last_op'.op = "select" /\ last_op'.strategy = s

\* C3: select_provider returns None iff the pool holds no available
\* provider of the requested model; a provider it returns is in the pool,
\* has the requested model, is available, and was loaded from an Active row
C3_SelectContract ==
    [][last_op'.op = "select" =>
        LET m == last_op'.model
            i == last_op'.result
        IN /\ last_op'.strategy \in StrategyTags
           /\ i = 0 <=> MatchingAvail(m) = {}
           /\ i # 0 =>
                /\ i \in 1..Len(providers)
                /\ last_op'.key = providers[i].api_key
                /\ providers[i].model_name = m
                /\ (~providers[i].support_balance_check
                    \/ providers[i].balance >= providers[i].min_balance_threshold)
                /\ providers[i].row_status = "Active"
                /\ \E j \in 1..Len(db) :
                      db[j].api_key = providers[i].api_key /\ db[j].status = "Active"
       ]_vars

\* a selection passed over a provider below its threshold and returned the
\* second of a pool of two, the table holding a row that is not Active
C3_Witness ==
    /\ last_op.op = "select" /\ last_op.model = "M" /\ last_op.result = 2
    /\ Len(providers) = 2
    /\ providers[1].model_name = "M" /\ ~is_provider_available(providers[1])
    /\ \E j \in 1..Len(db) : db[j].status = "Inactive"

\* C6: LeastConnections returns an available matching provider whose
\* request_count (0 without a tally) is minimal, the first in list order
\* among those of minimal count
C6_LeastConnections ==
    [][Selected("LeastConnections") =>
        LET S == MatchingAvail(last_op'.model)
            i == last_op'.result
            cnt(j) == IF providers[j].api_key \in DOMAIN token_usage
                      THEN token_usage[providers[j].api_key].request_count
                      ELSE 0
        IN S # {} =>
            /\ i \in S
            /\ \A j \in S : cnt(i) <= cnt(j)
            /\ \A j \in S : cnt(j) = cnt(i) => i <= j
            /\ current_index' = current_index
       ]_vars

\* LeastConnections passed over the first provider, which has served more
\* requests, and the tie between the other two went to the earlier one
C6_Witness ==
    /\ last_op.op = "select" /\ last_op.strategy = "LeastConnections"
    /\ last_op.model = "M" /\ last_op.result = 2
    /\ MatchingAvail("M") = {1, 2, 3}
    /\ request_count_of(providers[1].api_key) = 2
    /\ request_count_of(providers[2].api_key) = 1
    /\ request_count_of(providers[3].api_key) = 1

(***************************************************************************)
(* SpecTokens: the least-tokens scenario, with its token numbers           *)
(***************************************************************************)
TokenDbs ==
    {<<Row("A", "Active", 1, 0, 0, FALSE, "M"), b,
       Row("C", "Active", 1, 0, 0, FALSE, "M")>> :
        b \in {Row("B", "Active", 1, 0, 0, FALSE, "M"),
               Row("B", "Active", 1, 0, 1, TRUE, "M")}}

InitTokens ==
    /\ \E table \in TokenDbs : InitFrom(table)
    /\ req = [r \in {} |-> IdleReq]

NextTokens ==
    \/ PoolSelect("M", "LeastTokens")
    \/ \E k \in Keys, n \in {40, 50, 100} : PoolUpdateUsage(k, n, MaxScenarioTally)

SpecTokens == InitTokens /\ [][NextTokens]_vars

\* the pool holds A, B, C in this order, all available for M, with these
\* total_tokens tallies
Tallies(a, b, c) ==
    /\ Len(providers) = 3
    /\ providers[1].api_key = "A" /\ providers[2].api_key = "B"
    /\ providers[3].api_key = "C"
    /\ MatchingAvail("M") = {1, 2, 3}
    /\ "A" \in DOMAIN token_usage /\ token_usage["A"].total_tokens = a
    /\ "B" \in DOMAIN token_usage /\ token_usage["B"].total_tokens = b
    /\ "C" \in DOMAIN token_usage /\ token_usage["C"].total_tokens = c

\* C7: LeastTokens returns the first available matching provider of
\* minimal total_tokens; with tallies A=100, B=50, C=200 it is B,
\* update_usage(B, 40) makes B's tally 90, and it is B again
C7_LeastTokens ==
    [][/\ Selected("LeastTokens") =>
            LET S == MatchingAvail(last_op'.model)
                i == last_op'.result
                tot(j) == IF providers[j].api_key \in DOMAIN token_usage
                          THEN token_usage[providers[j].api_key].total_tokens
                          ELSE 0
            IN /\ S # {} =>
                    /\ i \in S
                    /\ \A j \in S : tot(i) <= tot(j)
                    /\ \A j \in S : tot(j) = tot(i) => i <= j
               /\ (Tallies(100, 50, 200) \/ Tallies(100, 90, 200)) =>
                    last_op'.key = "B"
       /\ (/\ Tallies(100, 50, 200)
           /\ last_op'.op = "update_usage"
           /\ last_op'.key = "B" /\ last_op'.tokens = 40) =>
                /\ token_usage'["B"].total_tokens = 90
                /\ token_usage'["B"].request_count = token_usage["B"].request_count + 1
                /\ token_usage'["A"] = token_usage["A"]
                /\ token_usage'["C"] = token_usage["C"]
      ]_vars

\* the selection after update_usage(B, 40): B again, with 90 < 100 < 200
C7_Witness ==
    /\ Tallies(100, 90, 200)
    /\ token_usage["B"].request_count = 2
    /\ last_op.op = "select" /\ last_op.strategy = "LeastTokens"
    /\ last_op.key = "B"

(***************************************************************************)
(* SpecRR: sequential non-streaming dispatches over three providers of one *)
(* model, each answered by the upstream within the retries of call_api     *)
(***************************************************************************)
RRDbs ==
    {<<Row("A", "Active", a, 0, 0, FALSE, "M"),
       Row("B", "Active", b, 0, 0, FALSE, "M"),
       Row("C", "Active", c, 0, 0, FALSE, "M")>> :
        a \in {1, 2}, b \in {1, 2}, c \in {1, 2}}

InitRR ==
    /\ \E table \in RRDbs : InitFrom(table)
    /\ req = [r \in 1..NumSeqReqs |-> IdleReq]

\* the r-th request arrives once the ones before it have been answered
StartSeq(r) ==
    /\ \A r2 \in 1..(r - 1) : req[r2].pc = "done"
    /\ Start(r, "M", FALSE)

\* an upstream attempt that fails only while call_api has a retry left
CallAnswered(r, outcome, u) ==
    /\ outcome # "ok" => req[r].attempt < req[r].provider.retry_attempts - 1
    /\ CallAttempt(r, outcome, u)

NextRR ==
    \/ \E r \in 1..NumSeqReqs : StartSeq(r)
    \/ \E r \in 1..NumSeqReqs : TmSelect(r)
    \/ \E r \in 1..NumSeqReqs : TmAcquire(r)
    \/ \E r \in 1..NumSeqReqs, o \in {"ok", "non2xx", "timeout"},
          u \in {Usage(1, 2, 3), Usage(2, 2, 4)} : CallAnswered(r, o, u)

SpecRR == InitRR /\ [][NextRR]_vars

\* the keys of the Success rows of dispatch r
ServedBy(r) ==
    {row.provider_api_key : row \in {x \in usage_rows :
                                       x.id[1] = r /\ x.status = "Success"}}

\* A, B, C, A, B, ...
RoundRobinOrder(r) == <<"A", "B", "C">>[((r - 1) % 3) + 1]

\* C5: with the pool [A, B, C] of one model, every provider available and
\* every upstream call successful, sequential non-streaming dispatches are
\* served by A, B, C, A, B in this order
C5_RoundRobinScenario ==
    \A r \in DOMAIN req :
        req[r].pc = "done" =>
            /\ req[r].status = 200
            /\ req[r].tried = <<"RoundRobin">>
            /\ ServedBy(r) = {RoundRobinOrder(r)}

\* five dispatches answered, by A, B, C, A and B
C5_Witness ==
    /\ \A r \in 1..5 : req[r].pc = "done" /\ req[r].status = 200
    /\ ServedBy(1) = {"A"} /\ ServedBy(2) = {"B"} /\ ServedBy(3) = {"C"}
    /\ ServedBy(4) = {"A"} /\ ServedBy(5) = {"B"}

(***************************************************************************)
(* SpecExhaust: the pool holds the single provider A with rate_limit 1;    *)
(* one dispatch takes A's permit and stays in its upstream call (retrying, *)
(* or streaming) while a second, non-streaming dispatch arrives            *)
(***************************************************************************)
ExhaustDbs ==
    {<<Row("A", "Active", 1, 0, 0, FALSE, "M")>>,
     <<Row("A", "Active", 1, 2, 1, TRUE, "M")>>,
     <<Row("A", "Active", 1, 0, 0, FALSE, "M"),
       Row("B", "Inactive", 1, 2, 1, TRUE, "M")>>,
     <<Row("B", "Inactive", 1, 0, 0, FALSE, "M"),
       Row("A", "Active", 1, 0, 0, FALSE, "M")>>}

InitExhaust ==
    /\ \E table \in ExhaustDbs : InitFrom(table)
    /\ req = [r \in Reqs |-> IdleReq]

\* the first dispatch, streaming or not
StartFirst(r, st) ==
    /\ \A h \in Reqs : req[h].pc = "idle"
    /\ Start(r, "M", st)

\* the second dispatch arrives while the first holds the permit
StartSecond(r) ==
    /\ \E h \in Reqs \ {r} : req[h].permit
    /\ Start(r, "M", FALSE)

\* an upstream attempt that fails while call_api has a retry left, so that
\* the call goes on
CallRetried(r, outcome) ==
    /\ req[r].attempt < req[r].provider.retry_attempts - 1
    /\ CallAttempt(r, outcome, NoUsage)

NextExhaust ==
    \/ \E r \in Reqs, st \in BOOLEAN : StartFirst(r, st)
    \/ \E r \in Reqs : StartSecond(r)
    \/ \E r \in Reqs : TmSelect(r)
    \/ \E r \in Reqs : TmAcquire(r)
    \/ \E r \in Reqs, o \in {"non2xx", "timeout"} : CallRetried(r, o)
    \/ \E r \in Reqs : Connect(r, "ok")
    \/ \E r \in Reqs, kind \in {"plain", "usage"}, u \in Usages : Chunk(r, kind, u)

SpecExhaust == InitExhaust /\ [][NextExhaust]_vars

\* C12: while another dispatch holds the only permit of the only provider
\* A, a non-streaming dispatch selects A under each of the three
\* strategies, is refused the permit each time, makes no upstream call,
\* writes no usage row and answers 503
C12_PermitExhaustion ==
    \A r \in Reqs, h \in Reqs :
        (r # h /\ req[h].permit /\ ~req[r].stream /\ req[r].pc # "idle") =>
            /\ req[h].provider.api_key = "A"
            /\ ~req[r].permit
            /\ req[r].calls = 0 /\ req[r].last_call = "none"
            /\ req[r].pc \in {"new", "acquire", "done"}
            /\ req[r].pc = "acquire" => req[r].provider.api_key = "A"
            /\ req[r].tried # <<>> =>
                  IF req[r].pc = "acquire" /\ Len(req[r].tried) = 1
                  THEN req[r].last_tm = "none"
                  ELSE req[r].last_tm = "refused"
            /\ req[r].pc = "done" =>
                  /\ req[r].status = 503
                  /\ req[r].tried = strategies
                  /\ RowsOf(r) = {}

\* the second dispatch has answered 503 while the first is in the third
\* attempt of its upstream call
C12_Witness ==
    \E r \in Reqs, h \in Reqs :
        /\ r # h
        /\ req[h].permit /\ req[h].pc = "call" /\ req[h].attempt = 2
        /\ req[r].pc = "done" /\ req[r].status = 503 /\ req[r].calls = 0
        /\ req[r].tried = strategies /\ req[r].last_tm = "refused"

(***************************************************************************)
(* SpecStream: streaming dispatches over the provider A, with upstream     *)
(* streams of up to MaxStreamChunks chunks and two different usage triples *)
(***************************************************************************)
StreamUsages == {Usage(10, 20, 30), Usage(1, 2, 3)}

\* a chunk without "usage" in its text, a chunk with a usage triple, a
\* chunk with "usage" in a text that is not JSON, a read error
StreamChunkKinds == {"plain", "usage", "not_json", "err"}

InitStream ==
    /\ \E rl \in {1, 2} : InitFrom(<<Row("A", "Active", rl, 0, 0, FALSE, "M")>>)
    /\ req = [r \in Reqs |-> IdleReq]

NextStream ==
    \/ \E r \in Reqs : Start(r, "M", TRUE)
    \/ \E r \in Reqs : TmSelect(r)
    \/ \E r \in Reqs : TmAcquire(r)
    \/ \E r \in Reqs, o \in ConnectOutcomes : Connect(r, o)
    \/ \E r \in Reqs, kind \in StreamChunkKinds, u \in StreamUsages :
          ChunkStep(r, kind, u, MaxStreamChunks)
    \/ \E r \in Reqs : StreamEnd(r)

SpecStream == InitStream /\ [][NextStream]_vars

\* the usage triple of the last chunk of `seen` that carried one
LatchedOf(seen) ==
    LET with == {i \in 1..Len(seen) : seen[i].kind = "usage"} IN
    IF with = {} THEN NoUsage ELSE seen[SetMax(with)].usage

\* C16: while a stream is read, the latched usage is the triple of the last
\* chunk that carried one, whatever chunks came before or after it; at
\* stream end that triple is what the Success row and update_usage get; a
\* stream of three chunks whose last carries (10, 20, 30) ends with one
\* Success row (10, 20, 30) and 30 tokens more on the tally of its key
C16_LatchedUsage ==
    /\ [](\A r \in Reqs : req[r].pc = "streaming" =>
            /\ req[r].chunk_count = Len(req[r].seen)
            /\ req[r].latest_usage = LatchedOf(req[r].seen))
    /\ [][\A r \in Reqs : IsStreamEnd(r) =>
            LET q == req[r]
                k == q.provider.api_key
                lu == LatchedOf(q.seen)
                old == IF k \in DOMAIN token_usage THEN token_usage[k].total_tokens
                       ELSE 0
                new == usage_rows' \ usage_rows
            IN /\ Cardinality(new) = 1
               /\ lu.some =>
                    /\ \A row \in new :
                          /\ row.status = "Success"
                          /\ row.prompt_tokens = lu.prompt_tokens
                          /\ row.completion_tokens = lu.completion_tokens
                          /\ row.total_tokens = lu.total_tokens
                    /\ token_usage'[k].total_tokens = old + lu.total_tokens
               /\ ~lu.some =>
                    /\ \A row \in new : row.status # "Success" /\ row.total_tokens = 0
                    /\ token_usage' = token_usage
               /\ (Len(q.seen) = 3 /\ q.seen[3].kind = "usage"
                   /\ q.seen[3].usage = Usage(10, 20, 30)) =>
                    /\ \A row \in new :
                          /\ row.status = "Success"
                          /\ row.prompt_tokens = 10
                          /\ row.completion_tokens = 20
                          /\ row.total_tokens = 30
                    /\ token_usage'[k].total_tokens = old + 30]_vars

\* a stream of three chunks has ended: an earlier triple (1, 2, 3), a chunk
\* that is not JSON, then (10, 20, 30), which is what was accounted
C16_Witness ==
    \E r \in Reqs :
        /\ req[r].pc = "done" /\ req[r].body = "stream"
        /\ Len(req[r].seen) = 3
        /\ req[r].seen[1].usage = Usage(1, 2, 3)
        /\ req[r].seen[2].kind = "not_json"
        /\ req[r].seen[3].usage = Usage(10, 20, 30)
        /\ Cardinality(RowsOf(r)) = 1
        /\ \A row \in RowsOf(r) :
              /\ row.status = "Success" /\ row.prompt_tokens = 10
              /\ row.completion_tokens = 20 /\ row.total_tokens = 30
              /\ token_usage[row.provider_api_key].total_tokens >= 30


(***************************************************************************)
(* The balance reconciler (specification SpecRec)                          *)
(*                                                                         *)
(* check_all_providers_from_db reads the Active rows once, checks them one *)
(* after the other against the upstream user-info endpoint, and then runs  *)
(* batch_delete_providers.  The table is a sequence in insertion order, so *)
(* ORDER BY created_at DESC is its reverse.  A NULL balance is the flag    *)
(* balance_null of a row.  Database errors are not modelled.               *)
(***************************************************************************)
MaxCycles == 1

\* Utc::now(): later than every time written in the table
Now(table) ==
    1 + SetMax({0} \cup {table[j].updated_at : j \in 1..Len(table)}
                   \cup {table[j].last_balance_check : j \in 1..Len(table)})

KeysOf(table) == {table[j].api_key : j \in 1..Len(table)}

RowOf(table, k) == table[CHOOSE j \in 1..Len(table) : table[j].api_key = k]

Reverse(s) == [j \in 1..Len(s) |-> s[Len(s) + 1 - j]]

\* a row whose balance column holds NULL
NullBalance(row) == [row EXCEPT !.balance = 0, !.balance_null = TRUE]

\* UPDATE api_providers SET balance = NULL, last_balance_check = ?
\* WHERE api_key = ?
update_provider_balance_to_null(table, k, now) ==
    [j \in 1..Len(table) |->
        IF table[j].api_key = k
        THEN [NullBalance(table[j]) EXCEPT !.last_balance_check = now]
        ELSE table[j]]

\* variant: a write that adds the reported balance to the stored one
update_provider_balance_in_db_add(table, k, b, now) ==
    [j \in 1..Len(table) |->
        IF table[j].api_key = k
        THEN [table[j] EXCEPT !.balance = @ + b, !.balance_null = FALSE,
                              !.last_balance_check = now]
        ELSE table[j]]

\* UPDATE api_providers SET balance = ?, last_balance_check = ?
\* WHERE api_key = ?
update_provider_balance_in_db(table, k, b, now) ==
    [j \in 1..Len(table) |->
        IF table[j].api_key = k
        THEN [table[j] EXCEPT !.balance = b, !.balance_null = FALSE,
                              !.last_balance_check = now]
        ELSE table[j]]

\* what the user-info endpoint can answer for one key
CheckOutcomes == {"ok", "401", "fail"}

\* the balances the endpoint reports
ReportedBalances == {0, 2}

\* the answer of the endpoint to one request
Answer(outcome, b) == [outcome |-> outcome, balance |-> b]

\* the endpoint answers (outcome, b) to a request for key k: any answer
\* when its answers are not fixed, the answer it holds for k otherwise
Answers(k, outcome, b) ==
    k \in DOMAIN upstream => upstream[k] = Answer(outcome, b)

\* variant: every failed check nulls the balance
check_balance_and_update_db_strict(table, k, outcome, b) ==
    CASE outcome = "401"  -> update_provider_balance_to_null(table, k, Now(table))
      [] outcome = "fail" -> update_provider_balance_to_null(table, k, Now(table))
      [] outcome = "ok"   -> update_provider_balance_in_db(table, k, b, Now(table))

\* variant: a 401 deletes the row at once
check_balance_and_update_db_evict(table, k, outcome, b) ==
    CASE outcome = "401"  -> SelectSeq(table, LAMBDA row: row.api_key # k)
      [] outcome = "fail" -> table
      [] outcome = "ok"   -> update_provider_balance_in_db(table, k, b, Now(table))

\* check_balance_and_update_db past its support_balance_check test: 401
\* nulls the balance, another failure leaves the row, a 2xx writes the
\* reported balance
check_balance_and_update_db(table, k, outcome, b) ==
    CASE outcome = "401"  -> update_provider_balance_to_null(table, k, Now(table))
      [] outcome = "fail" -> table
      [] outcome = "ok"   -> update_provider_balance_in_db(table, k, b, Now(table))

\* variant: DELETE statements without AND support_balance_check = 1
batch_delete_providers_all(table) ==
    SelectSeq(table, LAMBDA row: ~(row.balance_null \/ row.balance = 0))

\* the two DELETE statements of batch_delete_providers, whatever the status
\* of the rows; balance = 0.0 is not true of a NULL balance
batch_delete_providers(table) ==
    LET zero(row) == ~row.balance_null /\ row.balance = 0
                     /\ row.support_balance_check
        null(row) == row.balance_null /\ row.support_balance_check
    IN SelectSeq(SelectSeq(table, LAMBDA row: ~zero(row)),
                 LAMBDA row: ~null(row))

\* the keys and balances of the rows of a table
Balances(table) ==
    {<<table[j].api_key, table[j].balance, table[j].balance_null>> :
        j \in 1..Len(table)}

\* check_all_providers_from_db, its SELECT: with no Active row the cycle
\* returns at once, otherwise it goes through the rows it has read.  The
\* cycle remembers, for the properties, the keys it has asked the endpoint
\* about and what the cycle before it left in the table.
RecStartUpTo(cap) ==
    /\ rec.pc \in {"idle", "done"}
    /\ rec.cycles < cap
    /\ LET rows == Reverse(ActiveRows(db)) IN
       rec' = [pc |-> IF Len(rows) = 0 THEN "done" ELSE "checking",
               rows |-> rows, i |-> IF Len(rows) = 0 THEN 0 ELSE 1,
               cycles |-> rec.cycles + 1, queried |-> {},
               left |-> IF rec.cycles = 0 THEN {} ELSE Balances(db)]
    /\ UNCHANGED <<db, providers, current_index, token_usage, pool_sems, sems,
                   req, usage_rows, adm, admits, last_op>>
    /\ UNCHANGED <<adms, upstream, built, mutex>>

RecStart == RecStartUpTo(MaxCycles)

\* one iteration of the loop over the rows read: row.get("balance") as f64
\* panics on a NULL balance; a row without support_balance_check is
\* skipped, the others are checked upstream
RecCheck(outcome, b) ==
    /\ rec.pc = "checking"
    /\ LET row == rec.rows[rec.i]
           last == rec.i = Len(rec.rows)
       IN
       IF row.balance_null
       THEN /\ rec' = [rec EXCEPT !.pc = "panicked"]
            /\ db' = db
       ELSE IF ~row.support_balance_check
       THEN /\ rec' = [rec EXCEPT !.i = IF last THEN 0 ELSE @ + 1,
                                  !.pc = IF last THEN "deleting" ELSE @]
            /\ db' = db
       ELSE /\ Answers(row.api_key, outcome, b)
            /\ rec' = [rec EXCEPT !.i = IF last THEN 0 ELSE @ + 1,
                                  !.pc = IF last THEN "deleting" ELSE @,
                                  !.queried = @ \cup {row.api_key}]
            /\ db' = check_balance_and_update_db(db, row.api_key, outcome, b)
    /\ UNCHANGED <<providers, current_index, token_usage, pool_sems, sems,
                   req, usage_rows, adm, admits, last_op>>
    /\ UNCHANGED <<adms, upstream, built, mutex>>

\* the second phase of the cycle and its return; no pool is touched
RecDelete ==
    /\ rec.pc = "deleting"
    /\ db' = batch_delete_providers(db)
    /\ rec' = [rec EXCEPT !.pc = "done", !.rows = <<>>]
    /\ UNCHANGED <<providers, current_index, token_usage, pool_sems, sems,
                   req, usage_rows, adm, admits, last_op>>
    /\ UNCHANGED <<adms, upstream, built, mutex>>

\* a dispatch that arrives once a cycle has returned
StartAfterCycle(r, m) ==
    /\ rec.pc = "done"
    /\ Start(r, m, FALSE)

\* the balances a row can hold; 3 stands for NULL
RecBalances == {0, 2, 3}

RecRow(k, st, bal, sbc) ==
    IF bal = 3 THEN NullBalance(Row(k, st, 1, 0, 0, sbc, "M"))
    ELSE Row(k, st, 1, bal, 0, sbc, "M")

\* the rows a table can hold for key k: an Active row has a balance, as
\* initialize_provider_pool reads it as a number when the process starts
RecRows(k) ==
    {RecRow(k, st, bal, sbc) :
        st \in {"Active", "Inactive"}, bal \in RecBalances, sbc \in BOOLEAN}
    \ {RecRow(k, "Active", 3, sbc) : sbc \in BOOLEAN}

\* the tables the periodic task can find: one row, or a row X and a row Y
RecDbs ==
    {<<x>> : x \in RecRows("A")}
    \cup {<<x, y>> : x \in RecRows("A"), y \in RecRows("B")}

\* what the upstream answers to a dispatch made after a cycle
RecCallOutcomes == {"ok", "non2xx"}

InitRec ==
    /\ \E table \in RecDbs : InitFrom(table)
    /\ req = [r \in Reqs |-> IdleReq]

NextRec ==
    \/ RecStart
    \/ \E o \in CheckOutcomes, b \in ReportedBalances : RecCheck(o, b)
    \/ RecDelete
    \/ \E r \in Reqs : StartAfterCycle(r, "M")
    \/ \E r \in Reqs : TmSelect(r)
    \/ \E r \in Reqs : TmAcquire(r)
    \/ \E r \in Reqs, o \in RecCallOutcomes, u \in Usages : CallAttempt(r, o, u)

SpecRec == InitRec /\ [][NextRec]_vars

\* the row is one that a cycle is to remove
Evictable(row) ==
    row.support_balance_check /\ (row.balance_null \/ row.balance = 0)

\* C19: once a reconciler cycle has returned, the table holds no row with
\* support_balance_check whose balance is 0 or NULL, whatever the status of
\* the rows and whatever the table held before
C19_NoEvictableRowAfterCycle ==
    (rec.pc = "done" /\ rec.cycles >= 1) =>
        \A j \in 1..Len(db) : ~Evictable(db[j])

\* C20: once a reconciler cycle has returned, the pool of the dispatcher
\* holds the surviving Active rows; when the cycle has left no Active row
\* the pool is empty and a dispatch that arrives then is answered 503
\* without an upstream call
C20_EvictionReachesDispatcher ==
    (rec.pc = "done" /\ rec.cycles >= 1) =>
        /\ Len(providers) = Len(ActiveRows(db))
        /\ \A i \in 1..Len(providers) :
              providers[i].api_key = ActiveRows(db)[i].api_key
        /\ ActiveRows(db) = <<>> =>
              \A r \in Reqs : req[r].pc = "done" =>
                  req[r].status = 503 /\ req[r].calls = 0


\* C25: once a reconciler cycle has returned, a key whose row the cycle
\* deleted is no longer selectable: no dispatch that arrives after the
\* cycle is given such a key, and none is served by one
C25_EvictionAtomic ==
    (rec.pc = "done" /\ rec.cycles >= 1) =>
        \A r \in Reqs :
            req[r].pc \in {"acquire", "call"} =>
                req[r].provider.api_key \in KeysOf(db)

(***************************************************************************)
(* Reconciler cycles on a stable upstream (specification SpecCycle)        *)
(*                                                                         *)
(* The periodic task alone: nothing else writes to the table, and the      *)
(* user-info endpoint holds one answer for each key and gives it to every  *)
(* request.  Every request is answered, so a cycle under way goes on.      *)
(***************************************************************************)
MaxStableCycles == 2

\* the answers the endpoint can hold for the keys of a table
StableUpstreams(table) ==
    [KeysOf(table) -> {Answer(o, b) : o \in CheckOutcomes, b \in ReportedBalances}
                      \ {Answer(o, 2) : o \in {"401", "fail"}}]

InitCycle ==
    /\ \E table \in RecDbs :
          \E up \in StableUpstreams(table) : InitFromWith(table, up)
    /\ req = [r \in Reqs |-> IdleReq]

NextCycle ==
    \/ RecStartUpTo(MaxStableCycles)
    \/ \E o \in CheckOutcomes, b \in ReportedBalances : RecCheck(o, b)
    \/ RecDelete

SpecCycle == InitCycle /\ [][NextCycle]_vars /\ WF_vars(NextCycle)

\* the row the loop of the cycle is at
CheckedRow == rec.rows[rec.i]

\* the step asks the endpoint about the row the loop is at, and the
\* endpoint answers with the given outcome
IsCheckStep(outcome) ==
    /\ rec.pc = "checking" /\ rec' # rec
    /\ CheckedRow.support_balance_check /\ ~CheckedRow.balance_null
    /\ upstream[CheckedRow.api_key].outcome = outcome

\* the step is the batch-delete phase
IsDeleteStep == rec.pc = "deleting" /\ rec'.pc = "done"

\* the rows of other keys are the same before and after the step
OthersUntouched(k) ==
    /\ Len(db') = Len(db)
    /\ \A j \in 1..Len(db) : db[j].api_key # k => db'[j] = db[j]

\* C22: a check that fails with a transport error or a non-2xx status
\* other than 401 leaves the table as it was; the loop goes on to the next
\* row, or to the batch-delete phase after the last one, which runs; that
\* phase deletes the row of the failed key only if the row as the cycle
\* read it was already one to delete; and a cycle under way completes
C22_FailureLeavesRecord ==
    /\ [][IsCheckStep("fail") =>
            /\ db' = db
            /\ IF rec.i < Len(rec.rows)
               THEN rec'.pc = "checking" /\ rec'.i = rec.i + 1
               ELSE rec'.pc = "deleting"]_vars
    /\ [][IsDeleteStep =>
            \A j \in 1..Len(rec.rows) :
                LET row == rec.rows[j] IN
                (row.support_balance_check
                 /\ upstream[row.api_key].outcome = "fail") =>
                    /\ \E i \in 1..Len(db) : db[i] = row
                    /\ (\E i \in 1..Len(db') : db'[i] = row) <=> ~Evictable(row)]_vars
    /\ [](rec.pc = "deleting" => ENABLED RecDelete)
    /\ (rec.pc = "checking" ~> rec.pc = "done")

\* a cycle has returned in which the check of A failed and the check of B
\* wrote a balance: the row of A is as it was, never checked
C22_Witness ==
    /\ rec.pc = "done" /\ rec.queried = {"A", "B"}
    /\ upstream["A"].outcome = "fail" /\ upstream["B"] = Answer("ok", 2)
    /\ \E j \in 1..Len(db) : db[j].api_key = "A" /\ db[j].balance = 2
                             /\ db[j].last_balance_check = 0
    /\ \E j \in 1..Len(db) : db[j].api_key = "B" /\ db[j].last_balance_check > 0

\* C23: a check answered 401 sets the balance of the row to NULL and keeps
\* the row; a check answered 2xx writes the reported balance and the time
\* of the check; rows leave the table only in the batch-delete phase,
\* after which a key answered 401 is gone and a key answered 2xx is gone
\* exactly when the balance reported is zero
C23_EvictionInBatchPhase ==
    /\ [][IsCheckStep("401") =>
            LET k == CheckedRow.api_key IN
            /\ OthersUntouched(k)
            /\ k \in KeysOf(db) =>
                 /\ RowOf(db', k).balance_null
                 /\ RowOf(db', k).last_balance_check = Now(db)]_vars
    /\ [][IsCheckStep("ok") =>
            LET k == CheckedRow.api_key IN
            /\ OthersUntouched(k)
            /\ k \in KeysOf(db) =>
                 /\ ~RowOf(db', k).balance_null
                 /\ RowOf(db', k).balance = upstream[k].balance
                 /\ RowOf(db', k).last_balance_check = Now(db)]_vars
    /\ [][Len(db') # Len(db) => IsDeleteStep]_vars
    /\ [][IsDeleteStep =>
            \A k \in rec.queried :
                /\ upstream[k].outcome = "401" => k \notin KeysOf(db')
                /\ upstream[k].outcome = "ok" =>
                     (k \notin KeysOf(db') <=> upstream[k].balance = 0)]_vars

\* after the checks of a cycle and before its batch-delete phase, the row
\* of A (answered 401) is there with a NULL balance and the row of B
\* (answered 2xx with balance 0) is there with balance 0
C23_Witness ==
    /\ rec.pc = "deleting" /\ rec.queried = {"A", "B"}
    /\ upstream["A"].outcome = "401" /\ upstream["B"] = Answer("ok", 0)
    /\ \E j \in 1..Len(db) : db[j].api_key = "A" /\ db[j].balance_null
    /\ \E j \in 1..Len(db) : db[j].api_key = "B" /\ db[j].balance = 0
                             /\ db[j].last_balance_check > 0

\* C24: the endpoint is asked only about rows with support_balance_check,
\* and no step of a cycle changes or deletes a row without it
C24_SkippedRows ==
    /\ [][rec'.queried # rec.queried /\ rec.pc = "checking" =>
            /\ CheckedRow.support_balance_check
            /\ rec'.queried = rec.queried \cup {CheckedRow.api_key}]_vars
    /\ [][rec.pc = "checking" /\ rec' # rec
          /\ ~CheckedRow.support_balance_check =>
            db' = db /\ rec'.queried = rec.queried]_vars
    /\ [][\A j \in 1..Len(db) :
            ~db[j].support_balance_check =>
                \E i \in 1..Len(db') : db'[i] = db[j]]_vars

\* a cycle has returned that deleted the row of B; the row of A, Active
\* without support_balance_check and with balance 0, is still there and
\* the endpoint was not asked about it
C24_Witness ==
    /\ rec.pc = "done" /\ rec.cycles = 1 /\ rec.queried = {"B"}
    /\ "B" \in DOMAIN upstream /\ "B" \notin KeysOf(db)
    /\ \E j \in 1..Len(db) :
          /\ db[j].api_key = "A" /\ db[j].status = "Active"
          /\ ~db[j].support_balance_check /\ db[j].balance = 0

\* C26: when a second cycle returns, the table holds the keys and balances
\* that the first cycle had left
C26_Idempotent ==
    (rec.pc = "done" /\ rec.cycles >= 2) => Balances(db) = rec.left

\* a second cycle has returned; the first had deleted the row of B and
\* written the balance of A, and the second has checked A again
C26_Witness ==
    /\ rec.pc = "done" /\ rec.cycles = 2 /\ rec.queried = {"A"}
    /\ upstream["A"] = Answer("ok", 2)
    /\ "B" \in DOMAIN upstream /\ "B" \notin KeysOf(db)
    /\ <<"A", 2, FALSE>> \in rec.left
    /\ \E j \in 1..Len(db) : db[j].api_key = "A" /\ db[j].last_balance_check >= 2


(***************************************************************************)
(* Admissions running concurrently (specification SpecAdmit)               *)
(*                                                                         *)
(* POST /v1/providers (add_provider) and POST /v1/providers/batch with one *)
(* credential (batch_add_providers), each handler called once.             *)
(* add_provider validates with BalanceChecker::check_balance, which writes *)
(* to the table and to the pool; batch_add_providers validates with        *)
(* verify_api_key, which does not.                                         *)
(***************************************************************************)
AdmitPaths == {"single", "batch"}

\* a credential submitted with its min_balance_threshold
AdmissionRequest(k, rl, sbc, th) ==
    [AdmitRequest(k, rl, sbc) EXCEPT !.min_balance_threshold = th]

\* the credentials submitted: key A has a row at the start, key C has none
AdmissionRequests ==
    {AdmissionRequest(k, 1, sbc, 2) : k \in {"A", "C"}, sbc \in BOOLEAN}

\* the balances the user-info endpoint reports to a validation
VerifiedBalances == {0, 1, 2}

\* generate_uuid(): an id no row has and no other handler draws
generate_uuid(a) == IF a = "a1" THEN 11 ELSE 12

\* the uniqueness constraints of table api_providers: a row conflicts with
\* a new row of key k and id i when it has that key or that id
Conflicts(row, k, i) == row.api_key = k \/ row.id = i

\* variant: an upsert that always writes the new id and the new created_at
InsertOrReplace_fresh(table, rq, bal, id, now) ==
    Append(SelectSeq(table, LAMBDA row: row.api_key # rq.api_key),
           [Row(rq.api_key, "Active", rq.rate_limit, bal,
                rq.min_balance_threshold, rq.support_balance_check,
                rq.model_name)
            EXCEPT !.id = id, !.created_at = now, !.updated_at = now,
                   !.last_balance_check = now])

\* INSERT OR REPLACE INTO api_providers with
\* COALESCE((SELECT id ... WHERE api_key = ?), ?) and the same for
\* created_at: the row of that api_key, if any, gives its id and created_at
\* to the row that replaces it
InsertOrReplace(table, rq, bal, id, now) ==
    LET old == rq.api_key \in KeysOf(table)
        keep_id == IF old THEN RowOf(table, rq.api_key).id ELSE id
        keep_at == IF old THEN RowOf(table, rq.api_key).created_at ELSE now
    IN Append(SelectSeq(table, LAMBDA row: ~Conflicts(row, rq.api_key, keep_id)),
              [Row(rq.api_key, "Active", rq.rate_limit, bal,
                   rq.min_balance_threshold, rq.support_balance_check,
                   rq.model_name)
               EXCEPT !.id = keep_id, !.created_at = keep_at,
                      !.updated_at = now, !.last_balance_check = now])

\* DELETE FROM api_providers WHERE api_key = ? AND balance <= 0 (a NULL
\* balance does not compare)
remove_zero_balance_provider(table, k) ==
    SelectSeq(table, LAMBDA row: ~(row.api_key = k /\ ~row.balance_null
                                   /\ row.balance <= 0))

\* DELETE FROM api_providers WHERE api_key = ?
remove_invalid_provider(table, k) ==
    SelectSeq(table, LAMBDA row: row.api_key # k)

\* ProviderPoolState::remove_provider: the record leaves the list
remove_provider(provs, k) == SelectSeq(provs, LAMBDA p: p.api_key # k)

\* ProviderPoolState::remove_provider: the semaphore or tally of the key is
\* dropped
drop_key(map, k) == [x \in DOMAIN map \ {k} |-> map[x]]

\* the handler is called: the temporary ProviderInfo has balance 0.0
AdmStart(a, path, rq) ==
    /\ adms[a].pc = "idle"
    /\ adms' = [adms EXCEPT ![a] =
                 [IdleAdmission EXCEPT !.path = path, !.request = rq,
                                       !.id = generate_uuid(a),
                                       !.pc = IF rq.support_balance_check
                                              THEN "verify" ELSE "insert"]]
    /\ UNCHANGED <<db, providers, current_index, token_usage, pool_sems, sems,
                   req, usage_rows, adm, admits, last_op, rec, upstream, built, mutex>>

\* the handler returns without an insert: one entry in failed[]
Rejected(q, outcome, b) ==
    [q EXCEPT !.pc = "done", !.result = "failed", !.outcome = outcome,
              !.reported = b]

\* batch_add_providers: verify_api_key and the threshold test on its answer
AdmVerify(a, outcome, b) ==
    LET q == adms[a] IN
    /\ q.pc = "verify" /\ q.path = "batch"
    /\ adms' = [adms EXCEPT ![a] =
                 IF outcome = "ok" /\ ~(b < q.request.min_balance_threshold)
                 THEN [q EXCEPT !.pc = "insert", !.balance = b,
                                !.outcome = outcome, !.reported = b]
                 ELSE Rejected(q, outcome, IF outcome = "ok" THEN b ELSE 0)]
    /\ UNCHANGED <<db, providers, current_index, token_usage, pool_sems, sems,
                   req, usage_rows, adm, admits, last_op, rec, upstream, built, mutex>>

\* add_provider: check_balance, its call of check_balance_and_update_db.
\* A 2xx writes the reported balance to the row of the key, a 401 writes
\* NULL; the ProviderInfo of the handler keeps its balance 0.0.
AdmCheckBalance(a, outcome, b) ==
    LET q == adms[a]
        k == q.request.api_key
        removes == outcome = "401" \/ (outcome = "ok" /\ b <= 0)
    IN
    /\ q.pc = "verify" /\ q.path = "single"
    /\ db' = check_balance_and_update_db(db, k, outcome, b)
    /\ adms' = [adms EXCEPT ![a] =
                 IF removes
                 THEN [q EXCEPT !.pc = "remove", !.outcome = outcome,
                                !.reported = IF outcome = "ok" THEN b ELSE 0]
                 ELSE IF outcome = "ok" /\ ~(q.balance <= 0)
                 THEN [q EXCEPT !.pc = "insert", !.outcome = outcome,
                                !.reported = b]
                 ELSE Rejected(q, outcome, IF outcome = "ok" THEN b ELSE 0)]
    /\ UNCHANGED <<providers, current_index, token_usage, pool_sems, sems,
                   req, usage_rows, adm, admits, last_op, rec, upstream, built, mutex>>

\* add_provider: check_balance, its remove_zero_balance_provider (balance
\* <= 0) or remove_invalid_provider (401): the DELETE and, when it deleted
\* a row, remove_provider on the pool of the dispatcher; then the handler
\* returns its failed[] entry
AdmRemove(a) ==
    LET q == adms[a]
        k == q.request.api_key
        table == IF q.outcome = "401" THEN remove_invalid_provider(db, k)
                 ELSE remove_zero_balance_provider(db, k)
        affected == Len(table) < Len(db)
    IN
    /\ q.pc = "remove"
    /\ db' = table
    /\ providers' = IF affected THEN remove_provider(providers, k) ELSE providers
    /\ pool_sems' = IF affected THEN drop_key(pool_sems, k) ELSE pool_sems
    /\ token_usage' = IF affected THEN drop_key(token_usage, k) ELSE token_usage
    /\ adms' = [adms EXCEPT ![a] =
                 [Rejected(q, q.outcome, q.reported)
                  EXCEPT !.removed = IF affected THEN k ELSE "none"]]
    /\ UNCHANGED <<current_index, sems, req, usage_rows, adm, admits, last_op,
                   rec, upstream, built>>
    /\ IF Len(db') < Len(db) THEN Locked(a) ELSE UNCHANGED mutex

\* the INSERT OR REPLACE of either handler: one entry in success[]
AdmInsert(a) ==
    LET q == adms[a] IN
    /\ q.pc = "insert"
    /\ db' = InsertOrReplace(db, q.request, q.balance, q.id, Now(db))
    /\ adms' = [adms EXCEPT ![a] = [q EXCEPT !.pc = "load",
                                             !.result = "success"]]
    /\ UNCHANGED <<providers, current_index, token_usage, pool_sems, sems,
                   req, usage_rows, adm, admits, last_op, rec, upstream, built, mutex>>

\* initialize_provider_pool(&state.db).await: a new ProviderPoolState that
\* is not yet the shared one
AdmLoad(a) ==
    LET q == adms[a]
        provs == LoadProviders(db)
    IN
    /\ q.pc = "load"
    /\ sems' = sems \o NewSemaphores(provs)
    /\ adms' = [adms EXCEPT ![a] =
                 [q EXCEPT !.pc = "swap", !.new_providers = provs,
                           !.new_sems = NewSemaphoreMap(provs, Len(sems)),
                           !.new_table = db]]
    /\ UNCHANGED <<db, providers, current_index, token_usage, pool_sems,
                   req, usage_rows, adm, admits, last_op, rec, upstream, built, mutex>>

\* variant: a swap that takes the list and the semaphores of the new pool
\* and keeps the tallies of the old one
AdmSwap_tallies(a) ==
    LET q == adms[a] IN
    /\ q.pc = "swap"
    /\ providers' = q.new_providers
    /\ current_index' = 0
    /\ token_usage' = token_usage
    /\ pool_sems' = q.new_sems
    /\ built' = q.new_table
    /\ adms' = [adms EXCEPT ![a] =
                 [q EXCEPT !.pc = "done", !.new_providers = <<>>,
                           !.new_sems = [k \in {} |-> 0], !.new_table = <<>>]]
    /\ UNCHANGED <<db, sems, req, usage_rows, adm, admits, last_op, rec,
                   upstream>>
    /\ Locked(a)

\* variant: a swap that keeps the cursor of the old pool
AdmSwap_cursor(a) ==
    LET q == adms[a] IN
    /\ q.pc = "swap"
    /\ providers' = q.new_providers
    /\ current_index' = current_index
    /\ token_usage' = [k \in {} |-> 0]
    /\ pool_sems' = q.new_sems
    /\ built' = q.new_table
    /\ adms' = [adms EXCEPT ![a] =
                 [q EXCEPT !.pc = "done", !.new_providers = <<>>,
                           !.new_sems = [k \in {} |-> 0], !.new_table = <<>>]]
    /\ UNCHANGED <<db, sems, req, usage_rows, adm, admits, last_op, rec,
                   upstream>>
    /\ Locked(a)

\* let mut pool = state.provider_pool.lock().await; *pool = new_pool;
AdmSwap(a) ==
    LET q == adms[a] IN
    /\ q.pc = "swap"
    /\ providers' = q.new_providers
    /\ current_index' = 0
    /\ token_usage' = [k \in {} |-> 0]
    /\ pool_sems' = q.new_sems
    /\ built' = q.new_table
    /\ adms' = [adms EXCEPT ![a] =
                 [q EXCEPT !.pc = "done", !.new_providers = <<>>,
                           !.new_sems = [k \in {} |-> 0], !.new_table = <<>>]]
    /\ UNCHANGED <<db, sems, req, usage_rows, adm, admits, last_op, rec,
                   upstream>>
    /\ Locked(a)

\* the rows the table holds when the handlers are called
AdmitRowA(st) ==
    [Row("A", st, 1, 2, 1, TRUE, "M") EXCEPT !.id = 1]

AdmitRowB ==
    [Row("B", "Active", 1, 0, 0, FALSE, "M") EXCEPT !.id = 2]

AdmitDbs ==
    {<<AdmitRowA(st)>> : st \in {"Active", "Inactive"}}
    \cup {<<AdmitRowA(st), AdmitRowB>> : st \in {"Active", "Inactive"}}

InitAdmit ==
    /\ \E table \in AdmitDbs : InitFrom(table)
    /\ req = [r \in Reqs |-> IdleReq]

NextAdmit ==
    \/ \E a \in AdmIds, path \in AdmitPaths, rq \in AdmissionRequests :
          AdmStart(a, path, rq)
    \/ \E a \in AdmIds, o \in CheckOutcomes, b \in VerifiedBalances :
          AdmVerify(a, o, b)
    \/ \E a \in AdmIds, o \in CheckOutcomes, b \in VerifiedBalances :
          AdmCheckBalance(a, o, b)
    \/ \E a \in AdmIds : AdmRemove(a)
    \/ \E a \in AdmIds : AdmInsert(a)
    \/ \E a \in AdmIds : AdmLoad(a)
    \/ \E a \in AdmIds : AdmSwap(a)

SpecAdmit == InitAdmit /\ [][NextAdmit]_vars

\* the keys of the providers in the pool in use
PoolKeys == {providers[i].api_key : i \in 1..Len(providers)}

IsInsertStep(a) == adms[a].pc = "insert" /\ adms'[a].pc = "load"

\* C27: no two rows of the table hold the same api_key; the upsert of a
\* key that has a row keeps the id and created_at of that row, the upsert
\* of a new key writes the id and the time of the handler; in both cases
\* the other columns and updated_at take the submitted values
C27_UpsertByKey ==
    /\ [](\A i, j \in 1..Len(db) : db[i].api_key = db[j].api_key => i = j)
    /\ [][\A a \in AdmIds : IsInsertStep(a) =>
            LET rq  == adms[a].request
                k   == rq.api_key
                new == RowOf(db', k)
            IN
            /\ k \in KeysOf(db')
            /\ IF k \in KeysOf(db)
               THEN /\ new.id = RowOf(db, k).id
                    /\ new.created_at = RowOf(db, k).created_at
                    /\ Len(db') = Len(db)
               ELSE /\ new.id = adms[a].id
                    /\ new.created_at = Now(db)
                    /\ Len(db') = Len(db) + 1
            /\ new.updated_at = Now(db)
            /\ new.status = "Active"
            /\ new.balance = adms[a].balance /\ ~new.balance_null
            /\ new.rate_limit = rq.rate_limit
            /\ new.min_balance_threshold = rq.min_balance_threshold
            /\ new.support_balance_check = rq.support_balance_check
            /\ new.model_name = rq.model_name
            /\ \A j \in 1..Len(db) :
                  db[j].api_key # k => \E i \in 1..Len(db') : db'[i] = db[j]]_vars

\* key A, which had the row of id 1 at the start, has been admitted again:
\* its row has the id and created_at it had and the submitted threshold;
\* key C has been admitted too and has the id its handler drew
C27_Witness ==
    /\ "A" \in KeysOf(db) /\ "C" \in KeysOf(db)
    /\ RowOf(db, "A").id = 1 /\ RowOf(db, "A").created_at = 0
    /\ RowOf(db, "A").updated_at > 0
    /\ RowOf(db, "A").min_balance_threshold = 2
    /\ RowOf(db, "C").id \in {11, 12} /\ RowOf(db, "C").created_at > 0

\* the step is one of the validation of handler a: the request to the
\* user-info endpoint and what the handler does with the answer before it
\* inserts or rejects
IsValidationStep(a) ==
    adms[a].pc \in {"verify", "remove"} /\ adms'[a] # adms[a]

\* C28: validating a credential writes nothing: a step of the validation
\* leaves every row of the table and the pool as they were, so that a
\* rejected admission has changed neither
C28_VerifyOnly ==
    [][\A a \in AdmIds : IsValidationStep(a) =>
          db' = db /\ providers' = providers]_vars

\* handler a has rejected its credential, or is about to after its DELETE
IsRejecting(a) == adms[a].result = "failed" \/ adms[a].pc = "remove"

\* C29: when the validation of a credential was answered 2xx with balance
\* b, the admission is rejected exactly when b is below the submitted
\* min_balance_threshold, and an admission that is not rejected writes b
\* as the balance of the row
C29_ThresholdRule ==
    \A a \in AdmIds :
        adms[a].outcome = "ok" =>
            /\ IsRejecting(a) <=>
                 adms[a].reported < adms[a].request.min_balance_threshold
            /\ adms[a].result = "success" =>
                 adms[a].balance = adms[a].reported

\* C30: when no admission is under way, every credential whose admission
\* reported success and whose row is in the table with status 'Active' is
\* in the pool in use
C30_AdmittedInPool ==
    (\A a \in AdmIds : adms[a].pc \in {"idle", "done"}) =>
        \A a \in AdmIds :
            LET k == adms[a].request.api_key IN
            (/\ adms[a].result = "success"
             /\ k \in KeysOf(db)
             /\ RowOf(db, k).status = "Active") => k \in PoolKeys


(***************************************************************************)
(* Rebuilds among dispatches (specification SpecRebuild)                   *)
(*                                                                         *)
(* The three tasks that meet at the pool of the dispatcher: chat           *)
(* dispatches, one reconciler cycle (which deletes rows and leaves the     *)
(* pool alone) and one admission through POST /v1/providers/batch, whose   *)
(* rebuild drops from the pool the keys whose rows the cycle deleted.      *)
(***************************************************************************)
\* the table at the start: key A is checked for its balance, key B is not
RebuildDbs ==
    {<<>>}
    \cup {<<RecRow("A", "Active", bal, TRUE)>> : bal \in {0, 2}}
    \cup {<<RecRow("A", "Active", bal, TRUE), RecRow("B", "Active", 2, FALSE)>> :
            bal \in {0, 2}}

\* the credential submitted: key B, which may have a row, is not checked
\* for its balance
RebuildRequests == {AdmissionRequest("B", 1, FALSE, 0)}

InitRebuild ==
    /\ \E table \in RebuildDbs : InitFrom(table)
    /\ req = [r \in Reqs |-> IdleReq]

NextRebuild ==
    \/ RecStart
    \/ \E o \in CheckOutcomes, b \in ReportedBalances : RecCheck(o, b)
    \/ RecDelete
    \/ \E rq \in RebuildRequests : AdmStart("a1", "batch", rq)
    \/ AdmInsert("a1")
    \/ AdmLoad("a1")
    \/ AdmSwap("a1")
    \/ \E r \in Reqs : Start(r, "M", FALSE)
    \/ \E r \in Reqs : TmSelect(r)
    \/ \E r \in Reqs : TmAcquire(r)
    \/ \E r \in Reqs, o \in RecCallOutcomes, u \in Usages : CallAttempt(r, o, u)

SpecRebuild == InitRebuild /\ [][NextRebuild]_vars

\* the step is `*pool = new_pool` of handler a
IsSwapStep(a) == adms[a].pc = "swap" /\ adms'[a].pc = "done"

\* the step is a try_acquire_owned of dispatch r that returns a permit
IsAcquireStep(r) == ~req[r].permit /\ req'[r].permit

\* C31: a rebuild leaves the permits held and their semaphores as they
\* are, and once a rebuild has removed a key no dispatch acquires a permit
\* for that key, whenever the dispatch selected it
C31_PermitsAcrossRebuild ==
    [][/\ \A a \in AdmIds : IsSwapStep(a) =>
             /\ \A r \in Reqs : req'[r] = req[r]
             /\ \A id \in DOMAIN sems : sems'[id] = sems[id]
       /\ \A r \in Reqs : IsAcquireStep(r) =>
             req[r].provider.api_key \in PoolKeys]_vars

\* what LeastConnections and LeastTokens select for model m when no key has
\* a tally: the first available provider of the model, 0 when there is none
FirstAvailable(m) ==
    IF Len(available_providers(m)) = 0 THEN 0 ELSE Head(available_providers(m))

\* C32: the swap of a rebuild puts the whole new pool in place in one step:
\* the list is the one that was loaded, the tallies are empty, the cursor is
\* 0, and every key of the list has a semaphore that no pool and no
\* dispatch had before, with as many free permits as the rate_limit of the
\* row it was loaded from; the selections by tally are then those of a pool
\* without tallies
C32_RebuildResets ==
    [][\A a \in AdmIds : IsSwapStep(a) =>
          /\ providers' = adms[a].new_providers
          /\ providers' = LoadProviders(built')
          /\ token_usage' = [k \in {} |-> 0]
          /\ current_index' = 0
          /\ DOMAIN pool_sems' = {providers'[i].api_key : i \in 1..Len(providers')}
          /\ \A i \in 1..Len(providers') :
                LET k == providers'[i].api_key IN
                /\ sems'[pool_sems'[k]] = RowOf(built', k).rate_limit
                /\ \A x \in DOMAIN pool_sems : pool_sems[x] # pool_sems'[k]
                /\ \A r \in Reqs : req[r].sem # pool_sems'[k]
          /\ \A m \in Models :
                /\ select_provider(m, "LeastConnections")' = FirstAvailable(m)'
                /\ select_provider(m, "LeastTokens")' = FirstAvailable(m)']_vars

\* the admission has swapped its pool in and the pool has no tally, while
\* one dispatch was answered 200 (its tally was recorded, and discarded by
\* the swap) and another still holds a permit
C32_Witness ==
    /\ adms["a1"].pc = "done"
    /\ token_usage = [k \in {} |-> 0]
    /\ current_index = 0
    /\ PoolKeys = {"A", "B"}
    /\ \E r \in Reqs : req[r].pc = "done" /\ req[r].status = 200
    /\ \E r \in Reqs : req[r].permit

\* the step is the locked block of TokenManager::new of dispatch r, and it
\* calls update_index
IsUpdateIndexStep(r) ==
    /\ req[r].pc = "new" /\ req'[r] # req[r]
    /\ StrategyOf(req[r]) = "RoundRobin"
    /\ select_provider(req[r].model, "RoundRobin") # 0

\* C36: while the pool has providers the cursor is an index into the list,
\* and update_index runs only on a pool that has providers
C36_CursorInRange ==
    /\ [](Len(providers) > 0 =>
            current_index >= 0 /\ current_index < Len(providers))
    /\ [][\A r \in Reqs : IsUpdateIndexStep(r) => Len(providers) > 0]_vars

\* a rebuild has made the list shorter after the cursor had left 0: the
\* pool of A and B gave A to a round-robin dispatch, which is still in its
\* upstream call, and the pool in use holds B alone
C36_Witness ==
    /\ adms["a1"].pc = "done"
    /\ Len(sems) = 3
    /\ PoolKeys = {"B"}
    /\ req["r1"].permit /\ req["r1"].provider.api_key = "A"
    /\ req["r1"].tried = <<"RoundRobin">>
    /\ req["r2"].pc = "idle"
    /\ current_index = 0


(***************************************************************************)
(* update_usage on its own (specification SpecUsage)                       *)
(*                                                                         *)
(* A pool of keys A and B and calls of TokenManager::update_usage with     *)
(* token counts as an upstream reports them, in a build with overflow      *)
(* checks or in one without.                                               *)
(***************************************************************************)
\* the token counts reported: small ones, and two whose sum is not a u32
UsageTokens == {0, 1, 100, 200}

UsageKeys == {"A", "B"}

UsageDbs ==
    {<<Row("A", "Active", 1, 0, 0, FALSE, "M"),
       Row("B", "Active", 1, 0, 0, FALSE, "M")>>}

\* TokenManager::update_usage of a dispatch that holds key k
UsageUpdate(k, n, overflow_checks) ==
    /\ request_count_of(k) < MaxUpdates
    /\ token_usage' = update_usage_on(token_usage, k, n, overflow_checks)
    /\ last_op' = [op |-> "update_usage", model |-> "none",
                   strategy |-> "none", result |-> 0, key |-> k, tokens |-> n]
    /\ UNCHANGED <<db, providers, current_index, pool_sems, sems, req,
                   usage_rows, adm, admits>>
    /\ UNCHANGED <<rec, adms, upstream, built>>
    /\ Locked("tm")

InitUsage ==
    /\ \E table \in UsageDbs : InitFrom(table)
    /\ req = [r \in {} |-> IdleReq]

NextUsage ==
    \E k \in UsageKeys, n \in UsageTokens, c \in BOOLEAN : UsageUpdate(k, n, c)

SpecUsage == InitUsage /\ [][NextUsage]_vars

\* the tally of key k in the tallies `usage`
TallyOf(usage, k) ==
    IF k \in DOMAIN usage THEN usage[k]
    ELSE [total_tokens |-> 0, request_count |-> 0]

\* C33: from any tallies, for a key k and token counts n and m, the updates
\* (k, n) then (k, m) leave the total_tokens that (k, m) then (k, n) leave
\* and, when n + m is a u32, that the one update (k, n + m) leaves; each
\* update adds 1 to request_count; the tallies of the other keys stay
C33_UpdateUsageAdditive ==
    \A c \in BOOLEAN, k \in UsageKeys, n \in UsageTokens, m \in UsageTokens :
        LET n1 == update_usage_on(token_usage, k, n, c)
            nm == update_usage_on(n1, k, m, c)
            m1 == update_usage_on(token_usage, k, m, c)
            mn == update_usage_on(m1, k, n, c)
            one == update_usage_on(token_usage, k, n + m, c)
        IN
        /\ nm[k].total_tokens = mn[k].total_tokens
        /\ n + m <= MaxU32 => one[k].total_tokens = nm[k].total_tokens
        /\ n1[k].request_count = TallyOf(token_usage, k).request_count + 1
        /\ nm[k].request_count = n1[k].request_count + 1
        /\ \A x \in UsageKeys \ {k} :
              TallyOf(nm, x) = TallyOf(token_usage, x)


(***************************************************************************)
(* The pool mutex (specification SpecLock)                                 *)
(*                                                                         *)
(* The tasks that lock the pool of the dispatcher: non-streaming           *)
(* dispatches (TokenManager::new, TokenManager::update_usage) and one      *)
(* admission through POST /v1/providers, which locks it for                *)
(* remove_provider (an eviction) or for the swap of its rebuild.           *)
(***************************************************************************)
LockDbs == {<<AdmitRowA("Active"), AdmitRowB>>}

\* the credentials submitted: key A, checked for its balance, and the new
\* key C, which is not
LockRequests ==
    {AdmissionRequest("A", 1, TRUE, 2), AdmissionRequest("C", 1, FALSE, 2)}

InitLock ==
    /\ \E table \in LockDbs : InitFrom(table)
    /\ req = [r \in Reqs |-> IdleReq]

NextLock ==
    \/ \E r \in Reqs : Start(r, "M", FALSE)
    \/ \E r \in Reqs : TmSelect(r)
    \/ \E r \in Reqs : TmAcquire(r)
    \/ \E r \in Reqs, o \in RecCallOutcomes, u \in Usages : CallAttempt(r, o, u)
    \/ \E rq \in LockRequests : AdmStart("a1", "single", rq)
    \/ \E o \in CheckOutcomes, b \in ReportedBalances : AdmCheckBalance("a1", o, b)
    \/ AdmRemove("a1")
    \/ AdmInsert("a1")
    \/ AdmLoad("a1")
    \/ AdmSwap("a1")

SpecLock == InitLock /\ [][NextLock]_vars

\* dispatch r is in call_api: its HTTP request is in flight
InUpstreamCall(r) == req[r].pc = "call"

\* C34: while a dispatch is in its upstream call it does not hold the pool
\* mutex, and every task that is at a lock of the mutex can take it at
\* once: another dispatch at its selection, an admission at the swap of its
\* rebuild or at its remove_provider, and the dispatch itself for
\* update_usage when its call returns
C34_NoLockDuringCall ==
    \A r \in Reqs : InUpstreamCall(r) =>
        /\ mutex # r
        /\ \A r2 \in Reqs : req[r2].pc = "new" => ENABLED TmSelect(r2)
        /\ \A a \in AdmIds : adms[a].pc = "swap" => ENABLED AdmSwap(a)
        /\ \A a \in AdmIds : adms[a].pc = "remove" => ENABLED AdmRemove(a)
        /\ \A u \in Usages : ENABLED CallAttempt(r, "ok", u)

\* one dispatch is in its upstream call while the other is at its
\* selection and the admission is at the swap of its rebuild
C34_Witness ==
    /\ InUpstreamCall("r1")
    /\ req["r2"].pc = "new"
    /\ adms["a1"].pc = "swap"


(***************************************************************************)
(* The retry loop of call_api (specification SpecServe)                    *)
(***************************************************************************)
\* the step of dispatch r leaves call_api with the result of outcome o
Returns(r, o) ==
    /\ req'[r].pc \in {"new", "done"}
    /\ req'[r].last_call = o
    /\ req'[r].calls = req[r].calls

\* the step of dispatch r is `continue`: the next attempt of the same call,
\* against the same provider and under the same permit
Retries(r) ==
    /\ req'[r].pc = "call"
    /\ req'[r].attempt = req[r].attempt + 1
    /\ req'[r].provider = req[r].provider
    /\ req'[r].sem = req[r].sem /\ req'[r].permit
    /\ req'[r].calls = req[r].calls
    /\ req'[r].last_call = req[r].last_call

\* C35: one call_api makes at most 3 HTTP attempts, all against the
\* provider it was called with: an attempt that ends with a non-2xx status
\* or a timeout is followed by the next attempt when it was the first or
\* the second, and by the return of the error when it was the third; a 2xx
\* answer, a body that does not parse and a transport error that is not a
\* timeout return at once; and the call returns: whatever an attempt ends
\* with (the client has a timeout), the loop takes its step, so that after
\* at most 3 attempts it has returned
C35_CallApiRetries ==
    /\ [](\A r \in Reqs : req[r].pc = "call" =>
            /\ req[r].attempt >= 0 /\ req[r].attempt + 1 <= 3
            /\ req[r].provider.retry_attempts = 3)
    /\ [][\A r \in Reqs, o \in Outcomes, u \in Usages :
            CallAttempt(r, o, u) =>
                IF o \in {"non2xx", "timeout"} /\ req[r].attempt + 1 < 3
                THEN Retries(r)
                ELSE Returns(r, o)]_vars
    /\ [](\A r \in Reqs, o \in Outcomes : req[r].pc = "call" =>
            \E u \in Usages : ENABLED CallAttempt(r, o, u))

\* the third attempt of a call is in flight after two attempts that were
\* retried, and the call of the other dispatch has returned a parse error
C35_Witness ==
    /\ req["r1"].pc = "call" /\ req["r1"].attempt = 2
    /\ req["r2"].last_call = "parse_err" /\ req["r2"].calls = 1

\* dispatch r has returned the answer of its provider
Answered(q) == q.pc = "done" /\ q.status = 200

\* C37: a step of a non-streaming dispatch that is not the one in which
\* its upstream call succeeds (a selection miss, a permit refusal, a retry,
\* a failed call) leaves the tallies of every key as they are; so, while no
\* other request is made, the tallies are those the request found, up to
\* the step in which it is answered
C37_FailuresLeaveTallies ==
    /\ [][\A r \in Reqs :
            (~req'[r].stream /\ req'[r] # req[r] /\ ~Answered(req'[r])) =>
                token_usage' = token_usage]_vars
    /\ [](\A r \in Reqs :
            (/\ ~req[r].stream /\ ~Answered(req[r])
             /\ \A x \in Reqs \ {r} : req[x].pc = "idle") =>
                token_usage = [k \in {} |-> 0])

\* one request went through its three strategies with failed upstream
\* calls and was answered 503, and the tallies hold what the other
\* request, which was answered by its provider, recorded: one request
C37_Witness ==
    /\ req["r1"].pc = "done" /\ req["r1"].status = 503
    /\ Len(req["r1"].tried) = 3 /\ req["r1"].calls >= 1
    /\ ~req["r1"].stream /\ ~req["r2"].stream
    /\ Answered(req["r2"])
    /\ \E k \in DOMAIN token_usage : token_usage[k].request_count = 1
    /\ \A k \in DOMAIN token_usage : token_usage[k].request_count = 1

\* the id of the success[] entry of handler a: the id the handler drew
\* when it was called
ResponseId(q) == q.id

\* C38: at the INSERT OR REPLACE that puts a credential in success[], the
\* id the response reports is the id of the row the table holds for that
\* api_key, whether the key had a row or not
C38_ResponseIdIsRowId ==
    [][\A a \in AdmIds : IsInsertStep(a) =>
          /\ adms'[a].result = "success"
          /\ adms'[a].request.api_key \in KeysOf(db')
          /\ RowOf(db', adms'[a].request.api_key).id = ResponseId(adms'[a])]_vars

=============================================================================
